---- MODULE Spec2Model ----
(***************************************************************************)
(* AstraTune: sandbox provisioning and safe execution.                     *)
(*                                                                         *)
(* The model covers the database executors (sandbox/mysql_executor.py,     *)
(* sandbox/pg_executor.py), the sandbox manager                            *)
(* (sandbox/sandbox_manager.py) and the sandbox tool                       *)
(* (tools/sandbox_tool.py).  A database is a set of tables with their row  *)
(* sequences plus a set of sequences; a connection is a database with a    *)
(* dialect and a transaction status.  An SQL text is the sequence of its   *)
(* semicolon-delimited segments.                                           *)
(***************************************************************************)
EXTENDS Integers, Sequences, FiniteSets, TLC

VARIABLES
    tgt,        \* target (source) connection: SandboxManager.target_executor
    sbx,        \* sandbox connection: SandboxManager.sandbox_executor
    last,       \* the last direct DBExecutor.execute call and what it returned
    tool,       \* the SandboxTool: its table mapper and registered fixtures
    reg,        \* the last call on the TableMapper and the registry before it
    rw,         \* an SQL text, character by character, and what replace_table_names made of it
    graph,      \* the state of a running agent graph, its current node and what it did so far
    out,        \* the last SandboxTool.execute_sql call and what it returned
    main,       \* diag.py main: where it is, its table list, how it exited
    cfg,        \* SandboxManager.config: copy_thr, sample_size, sampling_strategy, batch_size
    pc,         \* where the sandbox manager is
    sm,         \* locals of setup_sandbox and of the copy it is making
    cl,         \* locals of cleanup_sandbox
    obs         \* what happened in the running call, as its caller may observe it

(***************************************************************************)
(* Bounds of the model.                                                    *)
(***************************************************************************)
MaxRows == 3        \* rows a table holds at most
MaxSegs == 2        \* segments of an SQL text handed to execute() directly
MaxScript == 3      \* segments of a script

Dialects == {"mysql", "pg"}
TableNames == {"orders", "events", "missing"}
SeqNames == {"orders_id_seq"}

(***************************************************************************)
(* SQL statements.  k is the statement, t the table or sequence it names,  *)
(* rows the rows of an INSERT, n the LIMIT (-1: none) or the value of a    *)
(* SET, ord the ORDER BY of a SELECT.  A "blank" segment is what lies      *)
(* between two semicolons with nothing but white space in it.              *)
(***************************************************************************)
Stmt(k, t) == [k |-> k, t |-> t, rows |-> <<>>, n |-> -1, ord |-> "none"]
Blank == Stmt("blank", "")
BadSql == Stmt("bad", "")
CreateTable(t) == Stmt("create", t)
DropTableSkipped(t) == Stmt("blank", "")
DropTable(t) == Stmt("drop", t)
InsertInto(t, rows) == [Stmt("insert", t) EXCEPT !.rows = rows]
SelectFrom(t, ord, n) == [Stmt("select", t) EXCEPT !.ord = ord, !.n = n]
SelectCount(t) == Stmt("count", t)
ShowTablesLike(t) == Stmt("exists", t)
ShowCreateTable(t) == Stmt("show_create", t)
CreateSequence(s) == Stmt("create_seq", s)
DropSequence(s) == Stmt("drop_seq", s)
SetForeignKeyChecks(v) == [Stmt("set_fk", "") EXCEPT !.n = v]
ListTables == Stmt("list_tables", "")
ListSequences == Stmt("list_seqs", "")
\* statements a caller may hand over besides the ones the program writes:
\* WITH ... SELECT, a SELECT below a "--" comment line, DESCRIBE
WithSelect(t) == Stmt("with", t)
CommentedSelect(t) == Stmt("commented", t)
Describe(t) == Stmt("desc", t)

(***************************************************************************)
(* The database engine behind cursor.execute(stmt).                        *)
(***************************************************************************)
EmptyDb == [exists |-> {}, rows |-> [t \in TableNames |-> <<>>], seqs |-> {}, fk |-> 1]

Min(a, b) == IF a <= b THEN a ELSE b

\* the names of a set in the engine's listing order
RECURSIVE SetToSeq(_)
SetToSeq(S) ==
    IF S = {} THEN <<>>
    ELSE LET x == CHOOSE y \in S : TRUE
         IN <<x>> \o SetToSeq(S \ {x})

RECURSIVE Reverse(_)
Reverse(s) == IF s = <<>> THEN <<>> ELSE Reverse(Tail(s)) \o <<Head(s)>>

\* cursor.execute(stmt) raises
StmtFails(db, dialect, s) ==
    CASE s.k = "bad" -> TRUE
      [] s.k = "create" -> s.t \in db.exists
      [] s.k \in {"insert", "select", "count", "show_create"} -> s.t \notin db.exists
      [] s.k \in {"with", "commented"} -> s.t \notin db.exists
      [] s.k = "desc" -> dialect = "pg" \/ s.t \notin db.exists
      [] s.k = "create_seq" -> dialect = "mysql" \/ s.t \in db.seqs
      [] s.k = "drop_seq" -> dialect = "mysql"
      [] s.k = "list_seqs" -> dialect = "mysql"
      [] s.k = "set_fk" -> dialect = "pg"
      [] OTHER -> FALSE

\* the database after cursor.execute(stmt) succeeded
StmtApply(db, s) ==
    CASE s.k = "create" ->
            [db EXCEPT !.exists = @ \cup {s.t}, !.rows[s.t] = <<>>]
      [] s.k = "drop" ->
            [db EXCEPT !.exists = @ \ {s.t}, !.rows[s.t] = <<>>]
      [] s.k = "insert" ->
            [db EXCEPT !.rows[s.t] = @ \o s.rows]
      [] s.k = "create_seq" -> [db EXCEPT !.seqs = @ \cup {s.t}]
      [] s.k = "drop_seq" -> [db EXCEPT !.seqs = @ \ {s.t}]
      [] s.k = "set_fk" -> [db EXCEPT !.fk = s.n]
      [] OTHER -> db

\* the rows cursor.fetchall() gives after a read; pick is the order the
\* engine's random function produced
StmtRows(db, s, pick) ==
    CASE s.k = "select" ->
            LET all == db.rows[s.t]
                ordered == CASE s.ord = "rand" -> pick
                             [] s.ord = "time_desc" -> Reverse(all)
                             [] OTHER -> all
            IN IF s.n >= 0 THEN SubSeq(ordered, 1, Min(s.n, Len(ordered))) ELSE ordered
      [] s.k \in {"with", "commented"} -> db.rows[s.t]
      [] s.k = "desc" -> <<s.t>>
      [] s.k = "count" -> <<Len(db.rows[s.t])>>
      [] s.k = "exists" -> IF s.t \in db.exists THEN <<s.t>> ELSE <<>>
      [] s.k = "show_create" -> <<CreateTable(s.t)>>
      [] s.k = "list_tables" -> SetToSeq(db.exists)
      [] s.k = "list_seqs" -> SetToSeq(db.seqs)
      [] OTHER -> <<>>

(***************************************************************************)
(* Connections.  db is the committed database, work the database as the    *)
(* session sees it inside its open transaction, tx the transaction status  *)
(* ("aborted": a statement failed and nothing was rolled back yet; only    *)
(* PostgreSQL refuses further statements then), session what the           *)
(* executor's connection attribute holds ("none": None, "open": a live     *)
(* session, "closed": a session that was closed).                          *)
(***************************************************************************)
Conn(dialect, db) ==
    [dialect |-> dialect, db |-> db, work |-> db, tx |-> "idle", session |-> "open"]

\* DBExecutor.__init__: self.connection = None
NotConnected(dialect, db) == [Conn(dialect, db) EXCEPT !.session = "none"]

\* what the environment decides for one execute() call: ext is the statement
\* that fails for a reason the database content does not explain (0: none),
\* pick the order a random ORDER BY produces
NoFault(pick) == [ext |-> 0, pick |-> pick]

\* a split that keeps the segments that strip to nothing
SplitKeepsBlank(sql) == sql

\* [s.strip() for s in sql.split(';') if s.strip()]
SplitStatements(sql) == SelectSeq(sql, LAMBDA s : s.k # "blank")

\* the first word of stmt.strip().upper() ("--": the statement opens with a
\* comment line)
Keyword(s) ==
    CASE s.k \in {"select", "count", "list_tables", "list_seqs"} -> "SELECT"
      [] s.k \in {"exists", "show_create"} -> "SHOW"
      [] s.k = "with" -> "WITH"
      [] s.k = "commented" -> "--"
      [] s.k = "desc" -> "DESCRIBE"
      [] s.k \in {"create", "create_seq"} -> "CREATE"
      [] s.k \in {"drop", "drop_seq"} -> "DROP"
      [] s.k = "insert" -> "INSERT"
      [] s.k = "set_fk" -> "SET"
      [] OTHER -> "?"

\* the first word of re.sub(r'--.*', '', stmt).strip().upper()
KeywordAfterComments(s) == IF s.k = "commented" THEN "SELECT" ELSE Keyword(s)

\* stmt.strip().upper().startswith(('SELECT', 'SHOW', 'EXPLAIN', 'DESC', 'DESCRIBE'))
MySQLIsQuery(s) == Keyword(s) \in {"SELECT", "SHOW", "EXPLAIN", "DESC", "DESCRIBE"}

\* re.sub(r'--.*', '', stmt).strip().upper().startswith(('SELECT', 'SHOW', 'EXPLAIN', 'WITH'))
PGIsQuery(s) == KeywordAfterComments(s) \in {"SELECT", "SHOW", "EXPLAIN", "WITH"}

IsQuery(dialect, s) == IF dialect = "mysql" THEN MySQLIsQuery(s) ELSE PGIsQuery(s)

\* one entry of all_results
StatementResult(dialect, s, fetch, db, pick) ==
    IF fetch /\ IsQuery(dialect, s)
    THEN [sql |-> s, isrows |-> TRUE, rows |-> StmtRows(db, s, pick)]
    ELSE [sql |-> s, isrows |-> FALSE, rows |-> <<>>]

\* the loop over the statements inside "with connection.cursor()": the
\* index of the statement that raised (0: none), the session's database and
\* all_results
RECURSIVE CursorLoop(_, _, _, _, _, _, _)
CursorLoop(stmts, i, conn, db, fetch, env, acc) ==
    IF i > Len(stmts) THEN [failedAt |-> 0, db |-> db, results |-> acc]
    ELSE IF \/ (conn.dialect = "pg" /\ conn.tx = "aborted")
            \/ env.ext = i
            \/ StmtFails(db, conn.dialect, stmts[i])
         THEN [failedAt |-> i, db |-> db, results |-> acc]
         ELSE CursorLoop(stmts, i + 1, conn, StmtApply(db, stmts[i]), fetch, env,
                         Append(acc, StatementResult(conn.dialect, stmts[i], fetch, db, env.pick)))

\* what a call returns: raised with error err, or value (none: Python None,
\* otherwise the list), and the connection afterwards
Returned(conn, list) == [conn |-> conn, raised |-> FALSE, err |-> "", none |-> FALSE, list |-> list]
ReturnedNone(conn) == [conn |-> conn, raised |-> FALSE, err |-> "", none |-> TRUE, list |-> <<>>]
Raised(conn, err) == [conn |-> conn, raised |-> TRUE, err |-> err, none |-> FALSE, list |-> <<>>]

\* the session after the cursor loop ran: its statements' effects are in the
\* open transaction, which a failed statement leaves aborted
AfterLoop(conn, run) ==
    [conn EXCEPT !.work = run.db, !.tx = IF run.failedAt = 0 THEN "open" ELSE "aborted"]

\* connection.commit()
Commit(conn) == [conn EXCEPT !.db = conn.work, !.tx = "idle"]

\* the except clause without its rollback call
RollbackSkipped(conn) == conn

\* connection.rollback()
Rollback(conn) == [conn EXCEPT !.work = conn.db, !.tx = "idle"]

\* MySQLExecutor.execute: the except clause rolls back and falls off the end
\* of the function.  "if not self.connection" lets a closed session through;
\* the driver then refuses the request and the rollback of the except clause
\* alike, so its InterfaceError leaves the function
MySQLExecute(conn, sql, fetch, env) ==
    IF conn.session = "none" THEN Raised(conn, "RuntimeError")
    ELSE IF conn.session = "closed" THEN Raised(conn, "InterfaceError")
    ELSE
    LET run == CursorLoop(SplitStatements(sql), 1, conn, conn.work, fetch, env, <<>>)
    IN IF run.failedAt = 0
       THEN IF fetch THEN Returned(Commit(AfterLoop(conn, run)), run.results)
                     ELSE ReturnedNone(Commit(AfterLoop(conn, run)))
       ELSE ReturnedNone(Rollback(AfterLoop(conn, run)))

\* PGExecutor.execute: the except clause rolls back and re-raises
PGExecute(conn, sql, fetch, env) ==
    IF conn.session = "none" THEN Raised(conn, "RuntimeError")
    ELSE IF conn.session = "closed" THEN Raised(conn, "InterfaceError")
    ELSE
    LET run == CursorLoop(SplitStatements(sql), 1, conn, conn.work, fetch, env, <<>>)
    IN IF run.failedAt = 0
       THEN IF fetch THEN Returned(Commit(AfterLoop(conn, run)), run.results)
                     ELSE ReturnedNone(Commit(AfterLoop(conn, run)))
       ELSE Raised(Rollback(AfterLoop(conn, run)), "DatabaseError")

\* connect(): self.connection becomes a new live session
Connect(conn) == [conn EXCEPT !.session = "open", !.work = conn.db, !.tx = "idle"]

\* connection.close() of the driver: what was not committed is lost; closing
\* a closed session raises Error("Already closed") in pymysql and does
\* nothing in psycopg2
SessionClose(conn) ==
    IF conn.session = "closed"
    THEN [conn |-> conn, raised |-> conn.dialect = "mysql", err |-> "Error"]
    ELSE [conn |-> [conn EXCEPT !.session = "closed", !.work = conn.db, !.tx = "idle"],
          raised |-> FALSE, err |-> ""]

\* close(): "if self.connection: self.connection.close()"; the attribute
\* keeps the session it held
Close(conn) ==
    IF conn.session = "none" THEN [conn |-> conn, raised |-> FALSE, err |-> ""]
    ELSE SessionClose(conn)

\* DBExecutor.execute, dispatched on the executor's class
Execute(conn, sql, fetch, env) ==
    IF conn.dialect = "mysql" THEN MySQLExecute(conn, sql, fetch, env)
                              ELSE PGExecute(conn, sql, fetch, env)

(***************************************************************************)
(* Introspection.  A call returns val or raises err.                       *)
(***************************************************************************)
Val(conn, v) == [conn |-> conn, raised |-> FALSE, err |-> "", val |-> v]
Exc(conn, e) == [conn |-> conn, raised |-> TRUE, err |-> e, val |-> <<>>]

\* MySQLExecutor.table_exists: any exception, the TypeError of results[0] on
\* None included, is caught and answered False
MySQLTableExists(conn, t, env) ==
    LET r == MySQLExecute(conn, <<ShowTablesLike(t)>>, TRUE, env)
    IN IF r.raised \/ r.none THEN Val(r.conn, FALSE)
       ELSE Val(r.conn, Len(r.list[1].rows) > 0)

\* PGExecutor.table_exists
PGTableExists(conn, t, env) ==
    LET r == PGExecute(conn, <<ShowTablesLike(t)>>, TRUE, env)
    IN IF r.raised \/ r.none THEN Val(r.conn, FALSE)
       ELSE Val(r.conn, Len(r.list[1].rows) > 0)

TableExists(conn, t, env) ==
    IF conn.dialect = "mysql" THEN MySQLTableExists(conn, t, env)
                              ELSE PGTableExists(conn, t, env)

\* a count that takes the missing result for an empty table
MySQLGetTableCountOrZero(conn, t, env) ==
    LET r == MySQLExecute(conn, <<SelectCount(t)>>, TRUE, env)
    IN IF r.raised THEN Exc(r.conn, r.err)
       ELSE IF r.none THEN Val(r.conn, 0)
       ELSE Val(r.conn, r.list[1].rows[1])

\* MySQLExecutor.get_table_count: results[0] on None raises TypeError
MySQLGetTableCount(conn, t, env) ==
    LET r == MySQLExecute(conn, <<SelectCount(t)>>, TRUE, env)
    IN IF r.raised THEN Exc(r.conn, r.err)
       ELSE IF r.none THEN Exc(r.conn, "TypeError")
       ELSE Val(r.conn, r.list[1].rows[1])

\* PGExecutor.get_table_count
PGGetTableCount(conn, t, env) ==
    LET r == PGExecute(conn, <<SelectCount(t)>>, TRUE, env)
    IN IF r.raised THEN Exc(r.conn, r.err)
       ELSE IF r.none THEN Exc(r.conn, "TypeError")
       ELSE Val(r.conn, r.list[1].rows[1])

GetTableCount(conn, t, env) ==
    IF conn.dialect = "mysql" THEN MySQLGetTableCount(conn, t, env)
                              ELSE PGGetTableCount(conn, t, env)

\* MySQLExecutor.get_create_table_ddl: SHOW CREATE TABLE through execute()
MySQLGetCreateTableDDL(conn, t, env) ==
    LET r == MySQLExecute(conn, <<ShowCreateTable(t)>>, TRUE, env)
    IN IF r.raised THEN Exc(r.conn, r.err)
       ELSE IF r.none THEN Exc(r.conn, "TypeError")
       ELSE Val(r.conn, <<r.list[1].rows[1]>>)

\* PGExecutor.get_create_table_ddl: the catalog query on a cursor of its own,
\* with neither commit nor rollback; the statement it builds ends with ";"
PGGetCreateTableDDL(conn, t, env) ==
    IF conn.tx = "aborted" \/ env.ext = 1 \/ t \notin conn.work.exists
    THEN Exc([conn EXCEPT !.tx = "aborted"], "DatabaseError")
    ELSE Val([conn EXCEPT !.tx = "open"], <<CreateTable(t), Blank>>)

GetCreateTableDDL(conn, t, env) ==
    IF conn.dialect = "mysql" THEN MySQLGetCreateTableDDL(conn, t, env)
                              ELSE PGGetCreateTableDDL(conn, t, env)

\* whether a statement of execute(sql) fails on conn
StepFails(conn, sql, env) ==
    CursorLoop(SplitStatements(sql), 1, conn, conn.work, TRUE, env, <<>>).failedAt # 0

vars == <<tgt, sbx, last, tool, reg, rw, graph, out, main, cfg, pc, sm, cl, obs>>

(***************************************************************************)
(* The executor driven directly, as unit_test/test_mysql.py drives it:     *)
(* connect, then any number of execute() calls.                            *)
(***************************************************************************)
\* all sequences over S of length 1..n
SeqsUpTo(S, n) == UNION {[1..k -> S] : k \in 1..n}

\* all orders of the elements of a sequence
Perms(s) ==
    {p \in [1..Len(s) -> 1..Len(s)] : \A i, j \in 1..Len(s) : p[i] = p[j] => i = j}
Arrangements(s) == {[i \in 1..Len(s) |-> s[p[i]]] : p \in Perms(s)}

WithinRows(conn) == \A t \in TableNames : Len(conn.db.rows[t]) <= MaxRows

ExecSegments ==
    {Blank, BadSql, CreateTable("orders"), DropTable("orders"), InsertInto("orders", <<1>>),
     SelectFrom("orders", "none", -1), CreateSequence("orders_id_seq")}

\* the database with every statement applied in order
RECURSIVE ApplyAll(_, _)
ApplyAll(db, stmts) ==
    IF stmts = <<>> THEN db ELSE ApplyAll(StmtApply(db, Head(stmts)), Tail(stmts))

\* last: pre is the database before the call, partial the session's database
\* when the loop stopped, applied the database with all statements applied
NoCall == [called |-> FALSE, pre |-> EmptyDb, nstmts |-> 0, fetch |-> FALSE,
           failedAt |-> 0, raised |-> FALSE, none |-> FALSE, nresults |-> 0,
           partial |-> EmptyDb, applied |-> EmptyDb, sql |-> <<>>, list |-> <<>>,
           op |-> "", err |-> "", was |-> "", t |-> "", val |-> <<>>]

NoErr == [type |-> "", at |-> ""]
Err(type, at) == [type |-> type, at |-> at]

\* setup_sandbox before its first statement
NewSetup(tables) ==
    [tables |-> tables, idx |-> 1, row_count |-> 0, mode |-> "", ddl |-> <<>>,
     rows |-> <<>>, off |-> 0, inserted |-> 0,
     info |-> [tables |-> <<>>, sampled_tables |-> <<>>], err |-> NoErr]

NewCleanup(caller) == [caller |-> caller, names |-> <<>>, k |-> 1]

\* nfaults: the executor calls of the running call that the environment made
\* fail; failed: a step of the running setup_sandbox did not do its work;
\* cl_invoked, cl_failed, cl_raised: cleanup_sandbox was entered, one of its
\* executor calls failed, it raised; batches: the INSERT batches issued for
\* the table being copied; err: the error the caller received
\* created: the tables whose CREATE the running setup_sandbox has issued,
\* each with whether the statement failed;
\* faulted: the environment made an executor call of the running call fail;
\* prev: the table list and the summary of the successful setup_sandbox that
\* the last cleanup_sandbox disposed of, kept while the same list is set up
\* again
NoPrev == [ok |-> FALSE, tables |-> <<>>, info |-> [tables |-> <<>>, sampled_tables |-> <<>>]]

\* pre: the sandbox database when cleanup_sandbox was entered; issued: the
\* statements cleanup_sandbox handed to the sandbox executor so far, each
\* with whether it failed; listed: the tables and sequences its enumerations
\* returned
NoObs == [failed |-> FALSE, cl_invoked |-> FALSE, cl_failed |-> FALSE, cl_raised |-> FALSE,
          batches |-> <<>>, err |-> NoErr, nfaults |-> 0, faulted |-> FALSE, prev |-> NoPrev,
          pre |-> EmptyDb, issued |-> <<>>, listed |-> <<>>, created |-> <<>>]

\* one statement handed to the sandbox executor
Sent(sql, failed) == <<[s |-> sql[1], failed |-> failed]>>

DefaultCfg == [copy_thr |-> 1, sample_size |-> 1, sampling_strategy |-> "random", batch_size |-> 1]

ManagerUnused ==
    /\ cfg = DefaultCfg
    /\ pc = "idle"
    /\ sm = NewSetup(<<>>)
    /\ cl = NewCleanup("api")
    /\ obs = NoObs

managerVars == <<main, cfg, pc, sm, cl, obs>>

\* TableMapper.__init__: two empty dicts, kept in insertion order
NewMapper == [mapping |-> <<>>, reverse_mapping |-> <<>>]

\* an attribute of the tool that no register_ call has assigned yet
Unset == [set |-> FALSE, sql |-> <<>>]

\* SandboxTool.__init__ assigns executor and table_mapper only
NewTool == [table_mapper |-> NewMapper, preprocess_sql |-> Unset, clean_up_sql |-> Unset]

\* out: what execute_sql gave its caller, when that call is the latest
\* operation on the tool; exc is the exception its try block raised,
\* main_failed that the caller's SQL was run and one of its statements
\* failed; sql is the text submitted and calls the executor calls issued
NoOut == [called |-> FALSE, sql |-> <<>>, calls |-> <<>>,
          raised |-> FALSE, kind |-> "", exc |-> "", at |-> "",
          main_failed |-> FALSE, parts |-> <<>>]

\* the configuration files: the database each of them names ("": the file
\* is missing or empty)
BothFiles == [target_db |-> "target", sandbox |-> "sandbox"]
NoTargetFile == [target_db |-> "", sandbox |-> "sandbox"]

\* get_diagnosis_config: an empty target_db falls back to the sandbox
\* configuration
GetDiagnosisConfig(configs) ==
    [target_db |-> IF configs.target_db = "" THEN configs.sandbox ELSE configs.target_db,
     sandbox |-> configs.sandbox]

\* main before setup_sandbox: tables is the parsed --tables argument, code
\* the exit status (-1: running), closed whether both connections were
\* closed, dbs the databases the two executors are connected to
NewMain(tables) ==
    [pc |-> "setup", tables |-> tables, code |-> -1, closed |-> FALSE,
     dbs |-> GetDiagnosisConfig(BothFiles)]

\* both executors are connected to one database
SameDatabase == main.dbs.target_db = main.dbs.sandbox

\* the target connection after the sandbox connection committed: on one
\* database it sees the tables, rows and sequences the other session wrote;
\* the foreign-key setting belongs to the session
Reflected(t, s) ==
    IF SameDatabase
    THEN [t EXCEPT !.db = [s.db EXCEPT !.fk = t.db.fk],
                   !.work = [s.db EXCEPT !.fk = t.work.fk]]
    ELSE t

\* no call on the mapper yet
NoReg == [called |-> FALSE, op |-> "", original_name |-> "", sandbox_name |-> "",
          before |-> NewMapper, raised |-> FALSE]

\* no agent graph running.  iteration, max_iter and conclusion (whether it
\* is a non-empty text) are the fields of AgentState; node is the node or
\* the edge function that runs next ("end": END, "error": the graph raised);
\* tool_calls and parsed describe the last message; runs counts the runs of
\* the reasoning node, forced those of the forced-conclusion node,
\* invocations the calls of the model; error_message is what the node about
\* to run finds under that key of its state ("unset": no such key)
NoGraph ==
    [kind |-> "", node |-> "end", iteration |-> 0, max_iter |-> 0, conclusion |-> FALSE,
     tool_calls |-> FALSE, parsed |-> FALSE, runs |-> 0, forced |-> 0, invocations |-> 0,
     error_message |-> "None", err |-> ""]

\* no text handed to replace_table_names
NoText == [called |-> FALSE, sql |-> <<>>, replaced |-> <<>>]

GatewayUnused ==
    /\ tool = NewTool
    /\ reg = NoReg
    /\ rw = NoText
    /\ graph = NoGraph
    /\ out = NoOut
    /\ main = NewMain(<<>>)

InitExecutor ==
    /\ ManagerUnused
    /\ GatewayUnused
    /\ tgt = Conn("mysql", EmptyDb)
    /\ \E d \in Dialects, r \in {<<>>, <<1>>} :
          sbx = Conn(d, IF r = <<>> THEN EmptyDb
                        ELSE [EmptyDb EXCEPT !.exists = {"orders"}, !.rows["orders"] = r])
    /\ last = NoCall

\* executor.execute(sql, fetch), for the texts and the fetch flags given
ExecuteOf(texts, fetches) ==
    \E sql \in texts, fetch \in fetches, ext \in 0..MaxScript :
        LET env == [ext |-> ext, pick |-> <<>>]
            ret == Execute(sbx, sql, fetch, env)
            run == CursorLoop(SplitStatements(sql), 1, sbx, sbx.work, fetch, env, <<>>)
        IN /\ ext <= Len(SplitStatements(sql))
           /\ WithinRows(ret.conn)
           /\ sbx' = ret.conn
           /\ last' = [called |-> TRUE, pre |-> sbx.db, nstmts |-> Len(SplitStatements(sql)),
                       fetch |-> fetch,
                       failedAt |-> run.failedAt, raised |-> ret.raised, none |-> ret.none,
                       nresults |-> Len(ret.list), partial |-> run.db,
                       applied |-> ApplyAll(sbx.db, SplitStatements(sql)),
                       sql |-> sql, list |-> ret.list,
                       op |-> "execute", err |-> ret.err, was |-> sbx.session,
                       t |-> "", val |-> <<>>]
           /\ UNCHANGED <<tgt, tool, reg, rw, graph, out, managerVars>>

ExecuteCall == ExecuteOf(SeqsUpTo(ExecSegments, MaxSegs), BOOLEAN)

NextExecutor == ExecuteCall

SpecExecutor == InitExecutor /\ [][NextExecutor]_vars

(***************************************************************************)
(* The sandbox manager: setup_sandbox and cleanup_sandbox, one step per    *)
(* executor call.  The manager is single-threaded: pc is the one position. *)
(***************************************************************************)
MaxTables == 2      \* names in the table list handed to setup_sandbox

TableLists == {<<>>} \cup SeqsUpTo(TableNames, MaxTables)
MaxFaults == 1      \* executor calls the environment makes fail in one call of the manager

\* the environment may make the one statement of the next executor call fail
Faults == IF obs.nfaults < MaxFaults THEN {0, 1} ELSE {0}
Env(ext, pick) == [ext |-> ext, pick |-> pick]

\* limit: int = None
NoLimit == -1
Truthy(limit) == limit # NoLimit /\ limit # 0

CurTable == sm.tables[sm.idx]

\* for table in tables: the loop head of setup_sandbox
AtTable(idx, tables) == IF idx > Len(tables) THEN "done_setup_ok" ELSE "sm_exists"

\* an exception leaves the try block of setup_sandbox
Raise(e) ==
    /\ pc' = "sm_except"
    /\ sm' = [sm EXCEPT !.err = e]

\* sandbox_manager.setup_sandbox(tables), for a table list of lists, called
\* when the session is at one of pcs
SetupFrom(pcs, lists) ==
    /\ pc \in pcs
    /\ \E tables \in lists :
          /\ sm' = NewSetup(tables)
          /\ pc' = AtTable(1, tables)
          /\ obs' = [NoObs EXCEPT !.prev = IF /\ obs.prev.ok /\ obs.prev.tables = tables
                                              /\ pc = "done_cleanup_ok" /\ ~obs.cl_failed
                                           THEN obs.prev ELSE NoPrev]
    /\ cl' = NewCleanup("api")
    /\ UNCHANGED <<tgt, sbx, last, tool, reg, rw, graph, out, main, cfg>>

\* the first setup_sandbox call of a session
SetupWith(lists) == SetupFrom({"idle"}, lists)

\* setup_sandbox called with any table list
SetupCall == SetupWith(TableLists)

\* setup_sandbox called with one table
SetupOne == SetupWith({<<t>> : t \in TableNames})

\* if not self.target_executor.table_exists(table): raise ValueError
SmExists ==
    /\ pc = "sm_exists"
    /\ \E ext \in Faults :
          LET r == TableExists(tgt, CurTable, Env(ext, <<>>))
          IN /\ tgt' = r.conn
             /\ IF r.val
                THEN /\ pc' = "sm_count"
                     /\ sm' = sm
                     /\ obs' = [obs EXCEPT !.nfaults = @ + ext, !.faulted = @ \/ ext > 0]
                ELSE /\ Raise(Err("ValueError", "table_exists"))
                     /\ obs' = [obs EXCEPT !.failed = TRUE, !.nfaults = @ + ext, !.faulted = @ \/ ext > 0]
    /\ UNCHANGED <<sbx, last, tool, reg, rw, graph, out, main, cfg, cl>>

\* row_count = self.target_executor.get_table_count(table) and the choice
\* between create_full_copy_table and create_sampled_table
SmCount ==
    /\ pc = "sm_count"
    /\ \E ext \in Faults :
          LET r == GetTableCount(tgt, CurTable, Env(ext, <<>>))
          IN /\ tgt' = r.conn
             /\ IF r.raised
                THEN /\ Raise(Err(r.err, "get_table_count"))
                     /\ obs' = [obs EXCEPT !.failed = TRUE, !.nfaults = @ + ext, !.faulted = @ \/ ext > 0]
                ELSE /\ pc' = "sm_ddl"
                     /\ sm' = [sm EXCEPT !.row_count = r.val,
                                         !.mode = IF r.val <= cfg.copy_thr THEN "full"
                                                                          ELSE "sampled"]
                     /\ obs' = [obs EXCEPT !.nfaults = @ + ext, !.faulted = @ \/ ext > 0]
    /\ UNCHANGED <<sbx, last, tool, reg, rw, graph, out, main, cfg, cl>>

\* create_ddl = self.target_executor.get_create_table_ddl(table_name)
SmDDL ==
    /\ pc = "sm_ddl"
    /\ \E ext \in Faults :
          LET r == GetCreateTableDDL(tgt, CurTable, Env(ext, <<>>))
          IN /\ tgt' = r.conn
             /\ IF r.raised
                THEN /\ Raise(Err(r.err, "get_create_table_ddl"))
                     /\ obs' = [obs EXCEPT !.failed = TRUE, !.nfaults = @ + ext, !.faulted = @ \/ ext > 0]
                ELSE /\ pc' = "sm_create"
                     /\ sm' = [sm EXCEPT !.ddl = r.val]
                     /\ obs' = [obs EXCEPT !.nfaults = @ + ext, !.faulted = @ \/ ext > 0]
    /\ UNCHANGED <<sbx, last, tool, reg, rw, graph, out, main, cfg, cl>>

\* self.sandbox_executor.execute(create_ddl, fetch=False)
SmCreate ==
    /\ pc = "sm_create"
    /\ \E ext \in Faults :
          LET env == Env(ext, <<>>)
              r == Execute(sbx, sm.ddl, FALSE, env)
          IN /\ sbx' = r.conn
             /\ obs' = [obs EXCEPT !.failed = @ \/ StepFails(sbx, sm.ddl, env),
                                   !.batches = <<>>, !.nfaults = @ + ext, !.faulted = @ \/ ext > 0,
                                   !.created = Append(@, [t |-> CurTable,
                                                          failed |-> StepFails(sbx, sm.ddl, env)])]
             /\ IF r.raised
                THEN Raise(Err(r.err, "create"))
                ELSE /\ pc' = "sm_select"
                     /\ sm' = sm
    /\ tgt' = Reflected(tgt, sbx')
    /\ UNCHANGED <<last, tool, reg, rw, graph, out, main, cfg, cl>>

\* the SELECT of _batch_copy_data
BatchCopySelect(t, limit, strategy) ==
    IF Truthy(limit)
    THEN CASE strategy = "random" -> SelectFrom(t, "rand", limit)
           [] strategy = "time_based" -> SelectFrom(t, "time_desc", limit)
           [] OTHER -> SelectFrom(t, "rand", limit)
    ELSE SelectFrom(t, "none", -1)

\* the limit create_full_copy_table and create_sampled_table hand over
CopyLimit == IF sm.mode = "full" THEN NoLimit ELSE cfg.sample_size

\* results = self.target_executor.execute(select_sql, fetch=True) and the
\* "no data" return of _batch_copy_data
SmSelect ==
    /\ pc = "sm_select"
    /\ \E ext \in Faults, pick \in Arrangements(tgt.work.rows[CurTable]) :
          LET env == Env(ext, pick)
              sql == <<BatchCopySelect(CurTable, CopyLimit, cfg.sampling_strategy)>>
              r == Execute(tgt, sql, TRUE, env)
          IN /\ tgt' = r.conn
             /\ obs' = [obs EXCEPT !.failed = @ \/ StepFails(tgt, sql, env),
                                   !.nfaults = @ + ext, !.faulted = @ \/ ext > 0]
             /\ IF r.raised
                THEN Raise(Err(r.err, "select"))
                ELSE IF r.none \/ r.list = <<>> \/ r.list[1].rows = <<>>
                THEN /\ pc' = "sm_append"
                     /\ sm' = [sm EXCEPT !.rows = <<>>, !.off = 0, !.inserted = 0]
                ELSE /\ pc' = "sm_insert"
                     /\ sm' = [sm EXCEPT !.rows = r.list[1].rows, !.off = 0, !.inserted = 0]
    /\ UNCHANGED <<sbx, last, tool, reg, rw, graph, out, main, cfg, cl>>

\* a slice one row too long
BatchOverlapping(rows, off, size) == SubSeq(rows, off + 1, Min(off + size + 1, Len(rows)))

\* batch = rows[i:i + self.batch_size]
Batch(rows, off, size) == SubSeq(rows, off + 1, Min(off + size, Len(rows)))

\* one round of "for i in range(0, total_rows, self.batch_size)"
SmInsert ==
    /\ pc = "sm_insert"
    /\ \E ext \in Faults :
          LET env == Env(ext, <<>>)
              batch == Batch(sm.rows, sm.off, cfg.batch_size)
              sql == <<InsertInto(CurTable, batch)>>
              r == Execute(sbx, sql, FALSE, env)
          IN /\ sbx' = r.conn
             /\ obs' = [obs EXCEPT !.failed = @ \/ StepFails(sbx, sql, env),
                                   !.batches = Append(@, batch), !.nfaults = @ + ext, !.faulted = @ \/ ext > 0]
             /\ IF r.raised
                THEN Raise(Err(r.err, "insert"))
                ELSE /\ sm' = [sm EXCEPT !.inserted = @ + Len(batch),
                                         !.off = @ + cfg.batch_size]
                     /\ pc' = IF sm.off + cfg.batch_size >= Len(sm.rows)
                              THEN "sm_append" ELSE "sm_insert"
    /\ tgt' = Reflected(tgt, sbx')
    /\ UNCHANGED <<last, tool, reg, rw, graph, out, main, cfg, cl>>

\* sandbox_info["tables"].append(...) and the next round of the table loop,
\* which assigns the locals of the loop body anew
SmAppend ==
    /\ pc = "sm_append"
    /\ sm' = [sm EXCEPT
                !.info = [tables |-> Append(@.tables,
                                            [original |-> CurTable,
                                             original_rows |-> sm.row_count,
                                             is_sampled |-> sm.mode = "sampled"]),
                          sampled_tables |-> IF sm.mode = "sampled"
                                             THEN Append(@.sampled_tables, CurTable)
                                             ELSE @.sampled_tables],
                !.idx = @ + 1,
                !.row_count = 0, !.mode = "", !.ddl = <<>>,
                !.rows = <<>>, !.off = 0, !.inserted = 0]
    /\ obs' = [obs EXCEPT !.batches = <<>>]
    /\ pc' = AtTable(sm.idx + 1, sm.tables)
    /\ UNCHANGED <<tgt, sbx, last, tool, reg, rw, graph, out, main, cfg, cl>>

\* cleanup_sandbox dispatches on the class of the sandbox executor
ClStart == IF sbx.dialect = "mysql" THEN "my_fk0" ELSE "pg_tables"

\* the error the caller of setup_sandbox receives: the bare raise that
\* follows "try: self.cleanup_sandbox() except: pass" re-raises the error
\* the except clause is handling
Propagated(original, cleanupRaised, cleanupErr) == original

\* cleanup_sandbox returns (raised = FALSE) or raises, failed telling
\* whether the executor call of this step failed
ClFinish(raised, failed, n, sent) ==
    LET e == Err("DatabaseError", "cleanup_sandbox")
    IN IF cl.caller = "api"
       THEN /\ pc' = IF raised THEN "done_cleanup_raised" ELSE "done_cleanup_ok"
            /\ obs' = [obs EXCEPT !.cl_failed = @ \/ failed, !.cl_raised = raised,
                                  !.err = IF raised THEN e ELSE NoErr, !.nfaults = @ + n,
                                  !.faulted = @ \/ n > 0, !.issued = @ \o sent]
       ELSE /\ pc' = "done_setup_raised"
            /\ obs' = [obs EXCEPT !.cl_failed = @ \/ failed, !.cl_raised = raised,
                                  !.err = Propagated(sm.err, raised, e), !.nfaults = @ + n,
                                  !.faulted = @ \/ n > 0, !.issued = @ \o sent]

ClStep(next, failed, n, sent, names) ==
    /\ pc' = next
    /\ obs' = [obs EXCEPT !.cl_failed = @ \/ failed, !.nfaults = @ + n, !.faulted = @ \/ n > 0,
                          !.issued = @ \o sent, !.listed = @ \o names]

\* the except clause of setup_sandbox: self.cleanup_sandbox(); of the locals
\* of the try block only the error being handled is still used
SmExcept ==
    /\ pc = "sm_except"
    /\ cl' = NewCleanup("setup")
    /\ sm' = [NewSetup(<<>>) EXCEPT !.err = sm.err]
    /\ obs' = [obs EXCEPT !.cl_invoked = TRUE, !.nfaults = 0, !.batches = <<>>,
                          !.pre = sbx.db, !.issued = <<>>, !.listed = <<>>]
    /\ pc' = ClStart
    /\ UNCHANGED <<tgt, sbx, last, tool, reg, rw, graph, out, main, cfg>>

\* sandbox_manager.cleanup_sandbox()
CleanupCall ==
    /\ pc \in {"idle", "done_setup_ok", "done_setup_raised"}
    /\ cl' = NewCleanup("api")
    /\ sm' = NewSetup(<<>>)
    /\ obs' = [NoObs EXCEPT !.cl_invoked = TRUE, !.pre = sbx.db,
                             !.prev = IF pc = "done_setup_ok"
                                      THEN [ok |-> TRUE, tables |-> sm.tables, info |-> sm.info]
                                      ELSE NoPrev]
    /\ pc' = ClStart
    /\ UNCHANGED <<tgt, sbx, last, tool, reg, rw, graph, out, main, cfg>>

\* the except clause of _cleanup_mysql_database: restore the foreign key
\* checks, swallowing any error, and re-raise
MyExceptConn(conn, env) == Execute(conn, <<SetForeignKeyChecks(1)>>, FALSE, env).conn

\* _cleanup_mysql_database: SET FOREIGN_KEY_CHECKS = 0
MyFk0 ==
    /\ pc = "my_fk0"
    /\ \E ext \in Faults, ext2 \in {0, 1} :
          LET env == Env(ext, <<>>)
              sql == <<SetForeignKeyChecks(0)>>
              r == Execute(sbx, sql, FALSE, env)
          IN /\ r.raised \/ ext2 = 0
             /\ IF r.raised
                THEN /\ sbx' = MyExceptConn(r.conn, Env(ext2, <<>>))
                     /\ ClFinish(TRUE, TRUE, ext,
                                  Sent(sql, TRUE) \o Sent(<<SetForeignKeyChecks(1)>>, ext2 = 1))
                ELSE /\ sbx' = r.conn
                     /\ ClStep("my_list", StepFails(sbx, sql, env), ext,
                               Sent(sql, StepFails(sbx, sql, env)), <<>>)
    /\ tgt' = Reflected(tgt, sbx')
    /\ UNCHANGED <<last, tool, reg, rw, graph, out, main, cfg, sm, cl>>

\* _cleanup_mysql_database: the tables of the schema, and the return when
\* there is none
MyList ==
    /\ pc = "my_list"
    /\ \E ext \in Faults, ext2 \in {0, 1} :
          LET env == Env(ext, <<>>)
              sql == <<ListTables>>
              r == Execute(sbx, sql, TRUE, env)
              failed == StepFails(sbx, sql, env)
          IN /\ r.raised \/ ext2 = 0
             /\ IF r.raised
                THEN /\ sbx' = MyExceptConn(r.conn, Env(ext2, <<>>))
                     /\ ClFinish(TRUE, TRUE, ext,
                                  Sent(sql, TRUE) \o Sent(<<SetForeignKeyChecks(1)>>, ext2 = 1))
                     /\ cl' = cl
                ELSE /\ sbx' = r.conn
                     /\ IF r.none \/ r.list = <<>> \/ r.list[1].rows = <<>>
                        THEN /\ ClFinish(FALSE, failed, ext, Sent(sql, failed))
                             /\ cl' = cl
                        ELSE /\ ClStep("my_drop", failed, ext, Sent(sql, failed), r.list[1].rows)
                             /\ cl' = [cl EXCEPT !.names = r.list[1].rows, !.k = 1]
    /\ tgt' = Reflected(tgt, sbx')
    /\ UNCHANGED <<last, tool, reg, rw, graph, out, main, cfg, sm>>

\* _cleanup_mysql_database: DROP TABLE IF EXISTS, errors logged
MyDrop ==
    /\ pc = "my_drop"
    /\ \E ext \in Faults :
          LET env == Env(ext, <<>>)
              sql == <<DropTable(cl.names[cl.k])>>
              r == Execute(sbx, sql, FALSE, env)
          IN /\ sbx' = r.conn
             /\ ClStep(IF cl.k >= Len(cl.names) THEN "my_fk1" ELSE "my_drop",
                       StepFails(sbx, sql, env), ext,
                       Sent(sql, StepFails(sbx, sql, env)), <<>>)
             /\ cl' = [cl EXCEPT !.k = @ + 1]
    /\ tgt' = Reflected(tgt, sbx')
    /\ UNCHANGED <<last, tool, reg, rw, graph, out, main, cfg, sm>>

\* _cleanup_mysql_database: SET FOREIGN_KEY_CHECKS = 1
MyFk1 ==
    /\ pc = "my_fk1"
    /\ \E ext \in Faults, ext2 \in {0, 1} :
          LET env == Env(ext, <<>>)
              sql == <<SetForeignKeyChecks(1)>>
              r == Execute(sbx, sql, FALSE, env)
          IN /\ r.raised \/ ext2 = 0
             /\ IF r.raised
                THEN /\ sbx' = MyExceptConn(r.conn, Env(ext2, <<>>))
                     /\ ClFinish(TRUE, TRUE, ext,
                                  Sent(sql, TRUE) \o Sent(<<SetForeignKeyChecks(1)>>, ext2 = 1))
                ELSE /\ sbx' = r.conn
                     /\ ClFinish(FALSE, StepFails(sbx, sql, env), ext,
                                  Sent(sql, StepFails(sbx, sql, env)))
    /\ tgt' = Reflected(tgt, sbx')
    /\ UNCHANGED <<last, tool, reg, rw, graph, out, main, cfg, sm, cl>>

\* _cleanup_postgres_database: the tables of schema public, and the return
\* when there is none
PgTables ==
    /\ pc = "pg_tables"
    /\ \E ext \in Faults :
          LET env == Env(ext, <<>>)
              sql == <<ListTables>>
              r == Execute(sbx, sql, TRUE, env)
          IN /\ sbx' = r.conn
             /\ IF r.raised
                THEN /\ ClFinish(TRUE, TRUE, ext, Sent(sql, TRUE))
                     /\ cl' = cl
                ELSE IF r.none \/ r.list = <<>> \/ r.list[1].rows = <<>>
                THEN /\ ClFinish(FALSE, FALSE, ext, Sent(sql, FALSE))
                     /\ cl' = cl
                ELSE /\ ClStep("pg_drop", FALSE, ext, Sent(sql, FALSE), r.list[1].rows)
                     /\ cl' = [cl EXCEPT !.names = r.list[1].rows, !.k = 1]
    /\ tgt' = Reflected(tgt, sbx')
    /\ UNCHANGED <<last, tool, reg, rw, graph, out, main, cfg, sm>>

\* a sweep whose loop has no try/except around the drop
PgDropAborting ==
    /\ pc = "pg_drop"
    /\ \E ext \in Faults :
          LET env == Env(ext, <<>>)
              sql == <<DropTable(cl.names[cl.k])>>
              r == Execute(sbx, sql, FALSE, env)
          IN /\ sbx' = r.conn
             /\ IF r.raised
                THEN ClFinish(TRUE, TRUE, ext, Sent(sql, TRUE))
                ELSE ClStep(IF cl.k >= Len(cl.names) THEN "pg_seqs" ELSE "pg_drop",
                            FALSE, ext, Sent(sql, FALSE), <<>>)
             /\ cl' = [cl EXCEPT !.k = @ + 1]
    /\ tgt' = Reflected(tgt, sbx')
    /\ UNCHANGED <<last, tool, reg, rw, graph, out, main, cfg, sm>>

\* _cleanup_postgres_database: DROP TABLE IF EXISTS ... CASCADE, errors logged
PgDrop ==
    /\ pc = "pg_drop"
    /\ \E ext \in Faults :
          LET env == Env(ext, <<>>)
              sql == <<DropTable(cl.names[cl.k])>>
              r == Execute(sbx, sql, FALSE, env)
          IN /\ sbx' = r.conn
             /\ ClStep(IF cl.k >= Len(cl.names) THEN "pg_seqs" ELSE "pg_drop",
                       StepFails(sbx, sql, env), ext,
                       Sent(sql, StepFails(sbx, sql, env)), <<>>)
             /\ cl' = [cl EXCEPT !.k = @ + 1]
    /\ tgt' = Reflected(tgt, sbx')
    /\ UNCHANGED <<last, tool, reg, rw, graph, out, main, cfg, sm>>

\* _cleanup_postgres_database: the sequences of schema public
PgSeqs ==
    /\ pc = "pg_seqs"
    /\ \E ext \in Faults :
          LET env == Env(ext, <<>>)
              sql == <<ListSequences>>
              r == Execute(sbx, sql, TRUE, env)
          IN /\ sbx' = r.conn
             /\ IF r.raised
                THEN /\ ClFinish(TRUE, TRUE, ext, Sent(sql, TRUE))
                     /\ cl' = cl
                ELSE IF ~r.none /\ r.list # <<>> /\ r.list[1].rows # <<>>
                THEN /\ ClStep("pg_dropseq", FALSE, ext, Sent(sql, FALSE), r.list[1].rows)
                     /\ cl' = [cl EXCEPT !.names = r.list[1].rows, !.k = 1]
                ELSE /\ ClFinish(FALSE, FALSE, ext, Sent(sql, FALSE))
                     /\ cl' = cl
    /\ tgt' = Reflected(tgt, sbx')
    /\ UNCHANGED <<last, tool, reg, rw, graph, out, main, cfg, sm>>

\* _cleanup_postgres_database: DROP SEQUENCE IF EXISTS ... CASCADE, errors logged
PgDropSeq ==
    /\ pc = "pg_dropseq"
    /\ \E ext \in Faults :
          LET env == Env(ext, <<>>)
              sql == <<DropSequence(cl.names[cl.k])>>
              r == Execute(sbx, sql, FALSE, env)
              failed == StepFails(sbx, sql, env)
          IN /\ sbx' = r.conn
             /\ IF cl.k >= Len(cl.names)
                THEN ClFinish(FALSE, failed, ext, Sent(sql, failed))
                ELSE ClStep("pg_dropseq", failed, ext, Sent(sql, failed), <<>>)
             /\ cl' = [cl EXCEPT !.k = @ + 1]
    /\ tgt' = Reflected(tgt, sbx')
    /\ UNCHANGED <<last, tool, reg, rw, graph, out, main, cfg, sm>>

(***************************************************************************)
(* A session of the sandbox manager: the two connections are open, the     *)
(* source holds its tables, the sandbox database holds whatever an earlier *)
(* session or the caller's SQL left in it.                                 *)
(***************************************************************************)
SourceRows(base, n) == [i \in 1..n |-> base + i]

\* the source database: orders holds MaxRows rows, events holds none, and
\* there is no table named missing
SourceDb ==
    [EmptyDb EXCEPT !.exists = {"orders", "events"},
                    !.rows["orders"] = SourceRows(10, MaxRows)]

\* what the sandbox database may hold when the session starts (MySQL has no
\* sequences)
Leftovers ==
    {EmptyDb,
     [EmptyDb EXCEPT !.seqs = {"orders_id_seq"}],
     [EmptyDb EXCEPT !.exists = {"orders"}, !.rows["orders"] = <<9>>],
     [EmptyDb EXCEPT !.exists = {"orders"}, !.rows["orders"] = <<9>>,
                     !.seqs = {"orders_id_seq"}]}

\* copy_thr is the row count of orders (full copy) or one less (sampled)
CopyThresholds == {MaxRows - 1, MaxRows}
SampleSizes == {0, MaxRows - 1, MaxRows + 1}
Strategies == {"random", "time_based", "stratified"}
BatchSizes == {1, 2}

Configs ==
    [copy_thr : CopyThresholds, sample_size : SampleSizes,
     sampling_strategy : Strategies, batch_size : BatchSizes]

\* the manager as constructed by diag.py: both executors of one dialect
InitManager(configs) ==
    /\ GatewayUnused
    /\ \E d \in Dialects, db \in Leftovers :
          /\ d = "mysql" => db.seqs = {}
          /\ tgt = Conn(d, SourceDb)
          /\ sbx = Conn(d, db)
    /\ cfg \in configs
    /\ pc = "idle"
    /\ sm = NewSetup(<<>>)
    /\ cl = NewCleanup("api")
    /\ obs = NoObs
    /\ last = NoCall

SetupSteps ==
    \/ SmExists \/ SmCount \/ SmDDL \/ SmCreate \/ SmSelect \/ SmInsert
    \/ SmAppend \/ SmExcept

CleanupSteps ==
    \/ MyFk0 \/ MyList \/ MyDrop \/ MyFk1
    \/ PgTables \/ PgDrop \/ PgSeqs \/ PgDropSeq

(***************************************************************************)
(* SpecProvision: a session provisions any table list once and disposes.   *)
(***************************************************************************)
InitProvision ==
    InitManager({c \in Configs : c.sample_size = MaxRows - 1 /\ c.batch_size = 2
                                   /\ c.sampling_strategy = "random"})

NextProvision == SetupCall \/ CleanupCall \/ SetupSteps \/ CleanupSteps

(***************************************************************************)
(* SpecConfigured: sessions as in SpecProvision whose two connections were  *)
(* opened from what get_diagnosis_config returned, for configuration files  *)
(* with and without a target_db file.  On one database the sandbox          *)
(* connection starts with the source's tables.                              *)
(***************************************************************************)
InitConfigured ==
    /\ tool = NewTool
    /\ reg = NoReg
    /\ rw = NoText
    /\ graph = NoGraph
    /\ out = NoOut
    /\ last = NoCall
    /\ \E files \in {BothFiles, NoTargetFile} :
          main = [NewMain(<<>>) EXCEPT !.dbs = GetDiagnosisConfig(files)]
    /\ \E d \in Dialects, db \in Leftovers :
          /\ d = "mysql" => db.seqs = {}
          /\ tgt = Conn(d, SourceDb)
          /\ sbx = Conn(d, IF SameDatabase THEN SourceDb ELSE db)
    /\ cfg \in {c \in Configs : c.sample_size = MaxRows - 1 /\ c.batch_size = 2
                                 /\ c.sampling_strategy = "random"}
    /\ pc = "idle"
    /\ sm = NewSetup(<<>>)
    /\ cl = NewCleanup("api")
    /\ obs = NoObs

NextConfigured == SetupCall \/ CleanupCall \/ SetupSteps \/ CleanupSteps

SpecConfigured == InitConfigured /\ [][NextConfigured]_vars

(***************************************************************************)
(* SpecCopy: a session provisions one table, under every configuration.    *)
(***************************************************************************)
InitCopy == InitManager(Configs)

NextCopy == SetupOne \/ SetupSteps \/ CleanupSteps

SpecCopy == InitCopy /\ [][NextCopy]_vars

SpecProvision == InitProvision /\ [][NextProvision]_vars

(***************************************************************************)
(* SpecSession: setup_sandbox and cleanup_sandbox alternate; after a       *)
(* cleanup that returned, setup_sandbox is called again.                   *)
(***************************************************************************)
SessionLists == {<<>>, <<"missing">>, <<"events", "orders">>}

\* a sandbox table that survived a cleanup grows with every further copy:
\* the session goes on while the tables are within MaxRows
SetupAny ==
    /\ WithinRows(sbx)
    /\ SetupFrom({"idle", "done_cleanup_ok"}, SessionLists)

\* the session starts on a sandbox without tables
InitSession == InitProvision /\ sbx.db.exists = {}

NextSession == SetupAny \/ CleanupCall \/ SetupSteps \/ CleanupSteps

SpecSession == InitSession /\ [][NextSession]_vars

(***************************************************************************)
(* diag.py main, from step 4 (setup_sandbox) on.  Both executors are       *)
(* MySQLExecutor.  The statements after the construction of the            *)
(* SandboxTool (agent, diagnosis, step 7) are never reached: see           *)
(* MainCreateTool.                                                         *)
(***************************************************************************)
MainLists == {<<>>, <<"orders">>, <<"missing">>, <<"events", "orders">>}

\* the attributes SandboxManager.__init__ assigns
ManagerAttrs ==
    {"target_executor", "sandbox_executor", "config", "copy_threshold", "sample_size",
     "sampling_strategy", "sampling_params", "batch_size", "target_quote", "sandbox_quote"}

\* sys.exit(code), after closing both connections or not
Exit(code, closed) == main' = [main EXCEPT !.pc = "exited", !.code = code, !.closed = closed]

\* cleanup_sandbox was called on the sandbox the last setup_sandbox returned
Disposed == obs.cl_invoked /\ cl.caller = "api"

InitMain ==
    /\ tool = NewTool
    /\ reg = NoReg
    /\ rw = NoText
    /\ graph = NoGraph
    /\ out = NoOut
    /\ last = NoCall
    /\ main \in {NewMain(tables) : tables \in MainLists}
    /\ tgt = Conn("mysql", SourceDb)
    /\ \E db \in Leftovers : db.seqs = {} /\ sbx = Conn("mysql", db)
    /\ cfg \in {c \in Configs : c.sample_size = MaxRows - 1 /\ c.batch_size = 2
                                 /\ c.sampling_strategy = "random"}
    /\ pc = "idle"
    /\ sm = NewSetup(<<>>)
    /\ cl = NewCleanup("api")
    /\ obs = NoObs

\* sandbox_info = sandbox_manager.setup_sandbox(tables)
MainSetup ==
    /\ main.pc = "setup"
    /\ SetupFrom({"idle"}, {main.tables})

\* except Exception around setup_sandbox: close both connections, sys.exit(1)
MainSetupRaised ==
    /\ main.pc = "setup"
    /\ pc = "done_setup_raised"
    /\ Exit(1, TRUE)
    /\ UNCHANGED <<tgt, sbx, last, tool, reg, rw, graph, out, cfg, pc, sm, cl, obs>>

\* the log loop over sandbox_info["tables"], inside the same try block: it
\* reads table_info['sandbox'], and a descriptor without that key is a
\* KeyError that the except clause answers like a failed setup
MainLogTables ==
    /\ main.pc = "setup"
    /\ pc = "done_setup_ok"
    /\ IF \E i \in 1..Len(sm.info.tables) : "sandbox" \notin DOMAIN sm.info.tables[i]
       THEN Exit(1, TRUE)
       ELSE main' = [main EXCEPT !.pc = "tool"]
    /\ UNCHANGED <<tgt, sbx, last, tool, reg, rw, graph, out, cfg, pc, sm, cl, obs>>

\* SandboxTool(sandbox_executor, sandbox_manager.table_mapper): reading an
\* attribute the manager does not have is an AttributeError outside every
\* inner try block; the outermost except clause logs it and calls
\* sys.exit(1), closing nothing
MainCreateTool ==
    /\ main.pc = "tool"
    /\ IF "table_mapper" \in ManagerAttrs
       THEN main' = [main EXCEPT !.pc = "agent"]
       ELSE Exit(1, FALSE)
    /\ UNCHANGED <<tgt, sbx, last, tool, reg, rw, graph, out, cfg, pc, sm, cl, obs>>

MainSetupSteps == SetupSteps \/ SmExcept \/ MyFk0 \/ MyList \/ MyDrop \/ MyFk1

NextMain == MainSetup \/ MainSetupSteps \/ MainSetupRaised \/ MainLogTables \/ MainCreateTool

SpecMain == InitMain /\ [][NextMain]_vars

(***************************************************************************)
(* The gateway: SandboxTool, and the TableMapper it rewrites the caller's  *)
(* SQL with.  A dict is a sequence of <<key, value>> pairs in insertion    *)
(* order.                                                                  *)
(***************************************************************************)
MapOriginals == {"orders"}
MapSandboxes == {"events"}

\* d[k] = v
DictSet(d, k, v) ==
    IF \E i \in 1..Len(d) : d[i][1] = k
    THEN [i \in 1..Len(d) |-> IF d[i][1] = k THEN <<k, v>> ELSE d[i]]
    ELSE Append(d, <<k, v>>)

\* TableMapper.add_mapping
AddMapping(m, original_name, sandbox_name) ==
    [mapping |-> DictSet(m.mapping, original_name, sandbox_name),
     reverse_mapping |-> DictSet(m.reverse_mapping, sandbox_name, original_name)]

\* d.get(k, default)
DictGet(d, k, default) ==
    IF \E i \in 1..Len(d) : d[i][1] = k
    THEN d[CHOOSE i \in 1..Len(d) : d[i][1] = k][2]
    ELSE default

\* TableMapper.get_sandbox_name / get_original_name
GetSandboxName(m, original_name) == DictGet(m.mapping, original_name, original_name)
GetOriginalName(m, sandbox_name) == DictGet(m.reverse_mapping, sandbox_name, sandbox_name)

\* TableMapper.get_all_sandbox_tables: list(self.mapping.values())
GetAllSandboxTables(m) == [i \in 1..Len(m.mapping) |-> m.mapping[i][2]]

\* a clear that forgets the reverse direction
ClearForwardOnly(m) == [m EXCEPT !.mapping = <<>>]

\* TableMapper.clear
Clear(m) == [mapping |-> <<>>, reverse_mapping |-> <<>>]

\* a call on the mapper of the tool: neither method has a raise statement
\* or a check of its arguments
MapperCall(op, original_name, sandbox_name) ==
    [called |-> TRUE, op |-> op, original_name |-> original_name,
     sandbox_name |-> sandbox_name, before |-> tool.table_mapper, raised |-> FALSE]

\* table_mapper.add_mapping(o, s) with names of the given sets
AddMappingOf(originals, sandboxes) ==
    /\ \E o \in originals, s \in sandboxes :
          /\ tool' = [tool EXCEPT !.table_mapper = AddMapping(@, o, s)]
          /\ reg' = MapperCall("add_mapping", o, s)
    /\ out' = NoOut
    /\ UNCHANGED <<tgt, sbx, last, rw, graph, managerVars>>

\* table_mapper.clear()
ClearCall ==
    /\ tool' = [tool EXCEPT !.table_mapper = Clear(@)]
    /\ reg' = MapperCall("clear", "", "")
    /\ out' = NoOut
    /\ UNCHANGED <<tgt, sbx, last, rw, graph, managerVars>>

\* sorted(self.mapping.items(), key=lambda x: len(x[0]), reverse=True); the
\* sort is stable
RECURSIVE InsertByLen(_, _)
InsertByLen(sorted, item) ==
    IF sorted = <<>> THEN <<item>>
    ELSE IF Len(Head(sorted)[1]) >= Len(item[1])
         THEN <<Head(sorted)>> \o InsertByLen(Tail(sorted), item)
         ELSE <<item>> \o sorted

RECURSIVE SortedMappings(_)
SortedMappings(d) ==
    IF d = <<>> THEN <<>>
    ELSE InsertByLen(SortedMappings(SubSeq(d, 1, Len(d) - 1)), d[Len(d)])

\* the re.sub calls of every mapping in turn, on one table reference: a name
\* produced by one mapping is matched by the mappings after it
RECURSIVE ReplaceName(_, _)
ReplaceName(sorted, name) ==
    IF sorted = <<>> THEN name
    ELSE ReplaceName(Tail(sorted),
                     IF name = Head(sorted)[1] THEN Head(sorted)[2] ELSE name)

\* TableMapper.replace_table_names
ReplaceTableNames(m, sql) ==
    [i \in 1..Len(sql) |-> [sql[i] EXCEPT !.t = ReplaceName(SortedMappings(m.mapping), @)]]

\* SandboxTool.register_preprocess_sql / register_clean_up_sql
Registered(sql) == [set |-> TRUE, sql |-> sql]

\* what an execute() call of execute_sql answered
Answer(r) == [raised |-> r.raised, none |-> r.none, list |-> r.list]
NoAnswer == [raised |-> FALSE, none |-> TRUE, list |-> <<>>]

\* "if self.<fixture>: r = self.executor.execute(self.<fixture>, fetch=True)"
\* followed by r[:100] in the log line: reading an attribute never assigned
\* is an AttributeError, slicing None a TypeError
\* ran: the fixture was handed to the executor, which answered ret
RunFixture(conn, fixture, env) ==
    IF ~fixture.set
    THEN [conn |-> conn, exc |-> "AttributeError", ran |-> FALSE, ret |-> NoAnswer]
    ELSE IF fixture.sql = <<>>
    THEN [conn |-> conn, exc |-> "", ran |-> FALSE, ret |-> NoAnswer]
    ELSE LET r == Execute(conn, fixture.sql, TRUE, env)
         IN [conn |-> r.conn, ran |-> TRUE, ret |-> Answer(r),
             exc |-> IF r.raised THEN r.err ELSE IF r.none THEN "TypeError" ELSE ""]

\* the executor calls of one execute_sql call, in the order issued
Call(what, sql, ret) == [what |-> what, sql |-> sql, ret |-> ret]
FixtureCall(what, fixture, r) ==
    IF r.ran THEN <<Call(what, fixture.sql, r.ret)>> ELSE <<>>

MaxDisplayRows == 20

\* a block that lists every row of the result
FormatResultUncapped(i, result) ==
    [number |-> i, sql |-> result.sql, isrows |-> result.isrows,
     row_count |-> Len(result.rows), shown |-> result.rows, hidden |-> 0]

\* one statement's block of _format_results: its number, the statement, the
\* rows listed and the number the suffix line gives (0: no suffix line)
FormatResult(i, result) ==
    [number |-> i, sql |-> result.sql, isrows |-> result.isrows,
     row_count |-> Len(result.rows),
     shown |-> SubSeq(result.rows, 1, Min(Len(result.rows), MaxDisplayRows)),
     hidden |-> IF Len(result.rows) > MaxDisplayRows
                THEN Len(result.rows) - MaxDisplayRows ELSE 0]

\* SandboxTool._format_results: "if not results" holds for None and for []
FormatResults(ret) ==
    IF ret.none \/ ret.list = <<>>
    THEN [kind |-> "success_empty", parts |-> <<>>]
    ELSE [kind |-> "formatted",
          parts |-> [i \in 1..Len(ret.list) |-> FormatResult(i, ret.list[i])]]

\* how the try block of execute_sql ends: with the exception exc raised at
\* one of its calls, or (exc = "") with the formatted result
Threw(conn, exc, at, main_failed, calls) ==
    [conn |-> conn, exc |-> exc, at |-> at, main_failed |-> main_failed,
     kind |-> "", parts |-> <<>>, calls |-> calls]

Formatted(conn, main_failed, text, calls) ==
    [conn |-> conn, exc |-> "", at |-> "", main_failed |-> main_failed,
     kind |-> text.kind, parts |-> text.parts, calls |-> calls]

\* a tool that formats what its last executor call answered
AfterCleanUpFormatsLast(post, results, failed, calls) ==
    IF post.exc # ""
    THEN Threw(post.conn, post.exc, "clean_up_sql", failed, calls)
    ELSE Formatted(post.conn, failed, FormatResults(post.ret), calls)

\* formatted_result = self._format_results(results), after the clean-up
\* fixture post
AfterCleanUp(post, results, failed, calls) ==
    IF post.exc # ""
    THEN Threw(post.conn, post.exc, "clean_up_sql", failed, calls)
    ELSE Formatted(post.conn, failed, FormatResults(results), calls)

\* the clean-up fixture, after results = self.executor.execute(replaced_sql)
AfterSql(results, failed, t, envs, calls) ==
    IF results.raised
    THEN Threw(results.conn, results.err, "sql", failed, calls)
    ELSE AfterCleanUp(RunFixture(results.conn, t.clean_up_sql, envs[3]), results, failed,
                      calls \o FixtureCall("clean_up_sql", t.clean_up_sql,
                                           RunFixture(results.conn, t.clean_up_sql, envs[3])))

\* the caller's SQL, after the preprocess fixture pre
AfterPreprocess(pre, t, replaced_sql, envs) ==
    IF pre.exc # ""
    THEN Threw(pre.conn, pre.exc, "preprocess_sql", FALSE,
               FixtureCall("preprocess_sql", t.preprocess_sql, pre))
    ELSE AfterSql(Execute(pre.conn, replaced_sql, TRUE, envs[2]),
                  StepFails(pre.conn, replaced_sql, envs[2]), t, envs,
                  FixtureCall("preprocess_sql", t.preprocess_sql, pre)
                      \o <<Call("sql", replaced_sql,
                                 Answer(Execute(pre.conn, replaced_sql, TRUE, envs[2])))>>)

\* the try block of execute_sql
TryBody(conn, t, sql, envs) ==
    AfterPreprocess(RunFixture(conn, t.preprocess_sql, envs[1]), t,
                    ReplaceTableNames(t.table_mapper, sql), envs)

\* a handler for database errors only
ExceptDatabaseErrorOnly(exc) == exc = "DatabaseError"

\* the classes "except Exception" catches: every exception the try block
\* raises derives from Exception
ExceptException(exc) == exc \in {"AttributeError", "TypeError", "DatabaseError"}

\* the except clause of execute_sql: the caller gets the failure text
Handled(body, sql) ==
    [conn |-> body.conn,
     out |-> [called |-> TRUE, sql |-> sql, calls |-> body.calls,
              raised |-> body.exc # "" /\ ~ExceptException(body.exc),
              kind |-> IF body.exc = "" THEN body.kind
                       ELSE IF ExceptException(body.exc) THEN "failure" ELSE "",
              exc |-> body.exc, at |-> body.at,
              main_failed |-> body.main_failed,
              parts |-> body.parts]]

\* SandboxTool.execute_sql: the connection afterwards and what the caller gets
ExecuteSql(conn, t, sql, envs) == Handled(TryBody(conn, t, sql, envs), sql)

(***************************************************************************)
(* SpecGateway: a tool on a provisioned sandbox; fixtures and mappings are *)
(* registered and SQL is submitted in any order.                           *)
(***************************************************************************)
FixtureSqls == {<<>>, <<SelectCount("orders")>>}

\* the SQL texts a caller submits
GatewaySqls ==
    {<<Blank>>, <<BadSql>>,
     <<SelectFrom("orders", "none", NoLimit)>>,
     <<InsertInto("orders", <<1>>)>>,
     <<InsertInto("orders", <<1>>), BadSql>>,
     <<InsertInto("orders", <<1>>), SelectFrom("orders", "none", NoLimit)>>,
     <<SelectFrom("orders", "none", NoLimit), SelectCount("orders")>>}

\* the environment makes the first statement of at most one of the three
\* executor calls of an execute_sql call fail
GatewayEnvs ==
    {[i \in 1..3 |-> Env(IF i = k THEN 1 ELSE 0, <<>>)] : k \in 0..3}

InitGateway ==
    /\ ManagerUnused
    /\ GatewayUnused
    /\ last = NoCall
    /\ \E d \in Dialects :
          /\ tgt = Conn(d, SourceDb)
          /\ sbx = Conn(d, [EmptyDb EXCEPT !.exists = {"orders", "events"},
                                           !.rows["orders"] = <<11>>])

RegisterPreprocessSql ==
    /\ \E sql \in FixtureSqls : tool' = [tool EXCEPT !.preprocess_sql = Registered(sql)]
    /\ out' = NoOut
    /\ UNCHANGED <<tgt, sbx, last, reg, rw, graph, managerVars>>

RegisterCleanUpSql ==
    /\ \E sql \in FixtureSqls : tool' = [tool EXCEPT !.clean_up_sql = Registered(sql)]
    /\ out' = NoOut
    /\ UNCHANGED <<tgt, sbx, last, reg, rw, graph, managerVars>>

AddMappingCall == AddMappingOf(MapOriginals, MapSandboxes)

ExecuteSqlCall ==
    /\ \E sql \in GatewaySqls, envs \in GatewayEnvs :
          /\ WithinRows(ExecuteSql(sbx, tool, sql, envs).conn)
          /\ sbx' = ExecuteSql(sbx, tool, sql, envs).conn
          /\ out' = ExecuteSql(sbx, tool, sql, envs).out
    /\ UNCHANGED <<tgt, last, tool, reg, rw, graph, managerVars>>

NextGateway ==
    RegisterPreprocessSql \/ RegisterCleanUpSql \/ AddMappingCall \/ ExecuteSqlCall

SpecGateway == InitGateway /\ [][NextGateway]_vars

(***************************************************************************)
(* SpecRegistry: the mapper of a tool under any sequence of add_mapping and *)
(* clear calls.                                                             *)
(***************************************************************************)
RegOriginals == {"orders", "events"}
RegSandboxes == {"sandbox_orders", "sandbox_events"}

InitRegistry ==
    /\ ManagerUnused
    /\ GatewayUnused
    /\ last = NoCall
    /\ tgt = Conn("mysql", SourceDb)
    /\ sbx = Conn("mysql", EmptyDb)

RegistryAdd == AddMappingOf(RegOriginals, RegSandboxes)

NextRegistry == RegistryAdd \/ ClearCall

SpecRegistry == InitRegistry /\ [][NextRegistry]_vars

(***************************************************************************)
(* replace_table_names on the text itself.  A text and a name are           *)
(* sequences of characters; a pattern is a literal, matched without regard  *)
(* to case (re.IGNORECASE), between two \b when bounded.                    *)
(***************************************************************************)
\* the backquote character, MySQL's identifier quote
Backquote == "BQ"

Chars == {"t", "T", "_", "x", " ", Backquote}
MaxText == 4

\* the characters \w matches
WordChars == {"t", "T", "x", "s", "_"}

Lower(c) == IF c = "T" THEN "t" ELSE c

IsWord(text, i) == i \in 1..Len(text) /\ text[i] \in WordChars

\* a pattern without its \b
BoundaryAnywhere(text, p) == TRUE

\* \b in front of text[p]
Boundary(text, p) == IsWord(text, p - 1) # IsWord(text, p)

\* pattern1 and pattern2 of a mapping
Pattern1(original) == [lit |-> <<Backquote>> \o original \o <<Backquote>>, bounded |-> FALSE]
Pattern2(original) == [lit |-> original, bounded |-> TRUE]

MatchesAt(text, i, pat) ==
    /\ i + Len(pat.lit) - 1 <= Len(text)
    /\ \A k \in 1..Len(pat.lit) : Lower(text[i + k - 1]) = Lower(pat.lit[k])
    /\ pat.bounded => (Boundary(text, i) /\ Boundary(text, i + Len(pat.lit)))

\* re.sub(pattern, repl, text): the matches from left to right, none
\* overlapping another
RECURSIVE Sub(_, _, _, _)
Sub(pat, repl, text, i) ==
    IF i > Len(text) THEN <<>>
    ELSE IF MatchesAt(text, i, pat)
         THEN repl \o Sub(pat, repl, text, i + Len(pat.lit))
         ELSE <<text[i]>> \o Sub(pat, repl, text, i + 1)

\* the body of the loop over sorted_mappings
ReplaceMapping(text, original, sandbox) ==
    Sub(Pattern2(original), sandbox,
        Sub(Pattern1(original), <<Backquote>> \o sandbox \o <<Backquote>>, text, 1), 1)

RECURSIVE ReplaceEach(_, _)
ReplaceEach(sorted, text) ==
    IF sorted = <<>> THEN text
    ELSE ReplaceEach(Tail(sorted), ReplaceMapping(text, Head(sorted)[1], Head(sorted)[2]))

\* TableMapper.replace_table_names on a text
ReplaceText(m, text) == ReplaceEach(SortedMappings(m.mapping), text)

(***************************************************************************)
(* SpecRewrite: a mapper filled by add_mapping calls, then one text handed  *)
(* to replace_table_names.                                                  *)
(***************************************************************************)
ShortName == <<"t">>
LongName == <<"t", "_", "x">>
TextOriginals == {ShortName, LongName}
TextSandboxes == {<<"s">>, <<"t">>}

InitRewrite == InitRegistry

\* self.mapping.keys()
Originals(m) == {m.mapping[i][1] : i \in 1..Len(m.mapping)}

\* the caller registers each original once
RewriteAdd ==
    /\ ~rw.called
    /\ AddMappingOf(TextOriginals \ Originals(tool.table_mapper), TextSandboxes)

\* table_mapper.replace_table_names(sql) for the texts given
ReplaceTableNamesOf(texts) ==
    /\ ~rw.called
    /\ \E sql \in texts :
          rw' = [called |-> TRUE, sql |-> sql,
                 replaced |-> ReplaceText(tool.table_mapper, sql)]
    /\ UNCHANGED <<tgt, sbx, last, tool, reg, graph, out, managerVars>>

ReplaceTableNamesCall == ReplaceTableNamesOf(SeqsUpTo(Chars, MaxText))

NextRewrite == RewriteAdd \/ ReplaceTableNamesCall

SpecRewrite == InitRewrite /\ [][NextRewrite]_vars

(***************************************************************************)
(* SpecDispose: sessions as in SpecSession whose caller also registers      *)
(* mappings on the tool's mapper between the calls on the manager.          *)
(***************************************************************************)
SessionAddMapping ==
    /\ pc \in {"idle", "done_setup_ok"}
    /\ AddMappingCall

NextDispose == NextSession \/ SessionAddMapping

SpecDispose == InitSession /\ [][NextDispose]_vars

C4_FailurePropagates ==
    (last.called /\ last.failedAt # 0) => last.raised

(***************************************************************************)
(* C1.  If any step of setup_sandbox fails for any table of the list,      *)
(* cleanup_sandbox is invoked before the error reaches the caller, and the *)
(* caller receives the original error: setup_sandbox never returns         *)
(* normally after a failed step, and when it raises, cleanup_sandbox has   *)
(* run and the error raised is the one the try block raised, whatever the  *)
(* recovery cleanup did.                                                   *)
(***************************************************************************)
C1_FailureDisposesAndPropagates ==
    /\ pc = "done_setup_ok" => ~obs.failed
    /\ pc = "done_setup_raised" =>
          /\ obs.failed
          /\ obs.cl_invoked
          /\ obs.err = sm.err
          /\ obs.err.at # "cleanup_sandbox"

(***************************************************************************)
(* C2.  After cleanup_sandbox returns, none of its statements having       *)
(* failed, the sandbox database holds no table and no sequence, whatever   *)
(* it held before.                                                         *)
(***************************************************************************)
C2_DisposeLeavesNothing ==
    (/\ pc \in {"done_cleanup_ok", "done_setup_raised"}
     /\ obs.cl_invoked /\ ~obs.cl_raised /\ ~obs.cl_failed)
        => (sbx.db.exists = {} /\ sbx.db.seqs = {})

(***************************************************************************)
(* C5.  execute_sql never raises: for every SQL text, every registration   *)
(* state of the two fixtures and every behaviour of the sandbox executor   *)
(* (raising, returning a list, returning None) the caller gets a string:   *)
(* the failure text, the "no result" text or the formatted results.        *)
(***************************************************************************)
C5_NeverRaises ==
    out.called =>
        /\ ~out.raised
        /\ out.kind \in {"failure", "success_empty", "formatted"}
        /\ out.exc # "" => out.kind = "failure"

\* the executor raised on the caller's SQL and the caller got the failure text
C5_Witness ==
    /\ out.called
    /\ out.exc = "DatabaseError"
    /\ out.at = "sql"
    /\ ~out.raised
    /\ out.kind = "failure"

(***************************************************************************)
(* C6.  When the SQL submitted to execute_sql fails to execute on the      *)
(* sandbox connection, the returned string is the failure text, in either  *)
(* dialect: a failed execution is never reported with a success text.      *)
(***************************************************************************)
C6_FailureSignalled ==
    (out.called /\ out.main_failed) => out.kind = "failure"

(***************************************************************************)
(* C7.  For every table of a successful setup_sandbox whose source row     *)
(* count is at most copy_thr, the descriptor has is_sampled false and the  *)
(* sandbox table holds exactly as many rows as the source table.           *)
(***************************************************************************)
C7_FullCopyExact ==
    pc = "done_setup_ok" =>
        \A i \in 1..Len(sm.info.tables) :
            LET d == sm.info.tables[i]
            IN Len(tgt.db.rows[d.original]) <= cfg.copy_thr =>
                  /\ ~d.is_sampled
                  /\ Len(sbx.db.rows[d.original]) = Len(tgt.db.rows[d.original])

(***************************************************************************)
(* C8.  For every table of a successful setup_sandbox whose source row     *)
(* count exceeds copy_thr, the descriptor has is_sampled true and the      *)
(* sandbox table holds min(sample_size, row count) rows, for every         *)
(* sample_size and sampling strategy.                                      *)
(***************************************************************************)
C8_SampledCopySize ==
    pc = "done_setup_ok" =>
        \A i \in 1..Len(sm.info.tables) :
            LET d == sm.info.tables[i]
                n == Len(tgt.db.rows[d.original])
            IN n > cfg.copy_thr =>
                  /\ d.is_sampled
                  /\ Len(sbx.db.rows[d.original]) = Min(cfg.sample_size, n)

(***************************************************************************)
(* C9.  A copy that read n > 0 rows issues exactly ceil(n / batch_size)    *)
(* INSERT calls on the sandbox connection; every batch but the last holds  *)
(* batch_size rows and the last holds the remaining                        *)
(* n - batch_size * (ceil(n / batch_size) - 1) rows.                       *)
(***************************************************************************)
CeilDiv(n, b) == (n + b - 1) \div b

C9_BatchSizes ==
    (pc = "sm_append" /\ Len(sm.rows) > 0) =>
        LET n == Len(sm.rows)
            b == cfg.batch_size
            k == CeilDiv(n, b)
        IN /\ Len(obs.batches) = k
           /\ \A i \in 1..(k - 1) : Len(obs.batches[i]) = b
           /\ Len(obs.batches[k]) = n - b * (k - 1)
           /\ sm.inserted = n

\* three rows copied with batch size 2: batches of 2 and 1
C9_Witness ==
    /\ pc = "sm_append"
    /\ Len(sm.rows) = 3
    /\ cfg.batch_size = 2
    /\ Len(obs.batches) = 2
    /\ Len(obs.batches[1]) = 2
    /\ Len(obs.batches[2]) = 1

(***************************************************************************)
(* C10.  After a full copy the sandbox table matches the source table row  *)
(* for row: the inserted batches, concatenated, are the source rows in     *)
(* source order, and so is the content of the sandbox table.               *)
(***************************************************************************)
RECURSIVE Concat(_)
Concat(ss) == IF ss = <<>> THEN <<>> ELSE Head(ss) \o Concat(Tail(ss))

C10_FullCopyContent ==
    (pc = "sm_append" /\ sm.mode = "full") =>
        /\ Concat(obs.batches) = tgt.db.rows[CurTable]
        /\ sbx.db.rows[CurTable] = tgt.db.rows[CurTable]

(***************************************************************************)
(* C11.  setup_sandbox on a table list with a name absent from the source  *)
(* never returns a summary: it raises the table-not-found ValueError at    *)
(* the first absent name, and when the cleanup it runs had no failing      *)
(* statement the sandbox database is left empty: no table, those created   *)
(* for earlier names of the list included, and no sequence.                *)
(***************************************************************************)
C11_AbsentTableAborts ==
    /\ pc = "done_setup_ok" =>
          \A i \in 1..Len(sm.tables) : sm.tables[i] \in tgt.db.exists
    /\ (/\ pc = "done_setup_raised"
        /\ sm.err = Err("ValueError", "table_exists")
        /\ ~obs.cl_failed /\ ~obs.cl_raised)
          => (obs.cl_invoked /\ sbx.db.exists = {} /\ sbx.db.seqs = {})

C13_MainDisposes ==
    (main.pc = "exited" /\ pc = "done_setup_ok") => Disposed

(***************************************************************************)
(* C14.  Fixtures.  A fixture is in force when it was registered with a     *)
(* non-empty text.  BothFixtures: the call just answered ran with both in   *)
(* force.  ThreeCalls: the three executor calls the tool then means to      *)
(* issue.                                                                   *)
(***************************************************************************)
InForce(fixture) == fixture.set /\ fixture.sql # <<>>

BothFixtures ==
    out.called /\ InForce(tool.preprocess_sql) /\ InForce(tool.clean_up_sql)

Issued == [i \in 1..Len(out.calls) |-> [what |-> out.calls[i].what, sql |-> out.calls[i].sql]]

ThreeCalls ==
    << [what |-> "preprocess_sql", sql |-> tool.preprocess_sql.sql],
       [what |-> "sql", sql |-> ReplaceTableNames(tool.table_mapper, out.sql)],
       [what |-> "clean_up_sql", sql |-> tool.clean_up_sql.sql] >>

C15_NoFixtures ==
    (out.called /\ ~tool.preprocess_sql.set /\ ~tool.clean_up_sql.set) =>
        /\ Len(out.calls) = 1
        /\ Issued = <<[what |-> "sql", sql |-> ReplaceTableNames(tool.table_mapper, out.sql)]>>
        /\ ~out.calls[1].ret.raised =>
              /\ out.kind = FormatResults(out.calls[1].ret).kind
              /\ out.parts = FormatResults(out.calls[1].ret).parts

(***************************************************************************)
(* C16.  After any sequence of add_mapping and clear calls no two mappings  *)
(* share an original name, no two share a sandbox name, and                 *)
(* mapping[o] = s if and only if reverse_mapping[s] = o.                    *)
(***************************************************************************)
Items(d) == {d[i] : i \in 1..Len(d)}

C16_RegistryInvariant ==
    LET m == tool.table_mapper
    IN /\ \A i, j \in 1..Len(m.mapping) :
             /\ m.mapping[i][1] = m.mapping[j][1] => i = j
             /\ m.mapping[i][2] = m.mapping[j][2] => i = j
       /\ \A o \in RegOriginals, s \in RegSandboxes :
             <<o, s>> \in Items(m.mapping) <=> <<s, o>> \in Items(m.reverse_mapping)

(***************************************************************************)
(* C17.  add_mapping with an original name or a sandbox name that is        *)
(* already registered fails with an error and leaves the registry           *)
(* unchanged.                                                               *)
(***************************************************************************)
C17_DuplicateRejected ==
    (/\ reg.called /\ reg.op = "add_mapping"
     /\ \/ \E x \in Items(reg.before.mapping) : x[1] = reg.original_name
        \/ \E x \in Items(reg.before.mapping) : x[2] = reg.sandbox_name)
        => (reg.raised /\ tool.table_mapper = reg.before)

(***************************************************************************)
(* C18.  After cleanup_sandbox returned the name-mapping registry of the    *)
(* session is empty.                                                        *)
(***************************************************************************)
C18_DisposeClearsMapper ==
    (pc = "done_cleanup_ok" /\ obs.cl_invoked) => tool.table_mapper = NewMapper

(***************************************************************************)
(* C19.  replace_table_names is prefix-safe.  With mappings registered for  *)
(* a name and for a longer name that begins with it, every occurrence of    *)
(* the longer name in the text (the name between two word boundaries, in    *)
(* any case) is replaced by the longer name's sandbox name: the text a,     *)
(* occurrence, b comes out as the replaced a, the sandbox name of the       *)
(* longer name, the replaced b.                                             *)
(***************************************************************************)
SandboxOf(m, original) ==
    (CHOOSE i \in 1..Len(m.mapping) : m.mapping[i][1] = original)

IsOccurrence(text, i, name) == MatchesAt(text, i, Pattern2(name))

C19_PrefixSafe ==
    (rw.called /\ {ShortName, LongName} \subseteq Originals(tool.table_mapper)) =>
        \A i \in 1..Len(rw.sql) :
            IsOccurrence(rw.sql, i, LongName) =>
                rw.replaced =
                    ReplaceText(tool.table_mapper, SubSeq(rw.sql, 1, i - 1))
                    \o tool.table_mapper.mapping[SandboxOf(tool.table_mapper, LongName)][2]
                    \o ReplaceText(tool.table_mapper,
                                   SubSeq(rw.sql, i + Len(LongName), Len(rw.sql)))

\* the same, for registries in which no sandbox name is an original name
C19_PrefixSafeApart ==
    (Originals(tool.table_mapper) \cap
        {tool.table_mapper.mapping[i][2] : i \in 1..Len(tool.table_mapper.mapping)} = {})
        => C19_PrefixSafe

(***************************************************************************)
(* C20.  The tokens of a text: each maximal run of word characters, and     *)
(* each other character by itself.                                          *)
(***************************************************************************)
WordRun(text) ==
    CHOOSE n \in 1..Len(text) :
        (\A k \in 1..n : IsWord(text, k)) /\ ~IsWord(text, n + 1)

RECURSIVE Tokens(_)
Tokens(text) ==
    IF text = <<>> THEN <<>>
    ELSE IF ~IsWord(text, 1) THEN <<SubSeq(text, 1, 1)>> \o Tokens(Tail(text))
    ELSE <<SubSeq(text, 1, WordRun(text))>>
             \o Tokens(SubSeq(text, WordRun(text) + 1, Len(text)))

LowerName(name) == [k \in 1..Len(name) |-> Lower(name[k])]

TokenKept(i) ==
    /\ i <= Len(Tokens(rw.replaced))
    /\ Tokens(rw.replaced)[i] = Tokens(rw.sql)[i]

(***************************************************************************)
(* C20 as stated: every token of the text that is not a registered          *)
(* original name is in the output unchanged and at the same position, and   *)
(* with an empty registry the output is the text.                           *)
(***************************************************************************)
C20_UnmappedUntouched ==
    rw.called =>
        /\ \A i \in 1..Len(Tokens(rw.sql)) :
              Tokens(rw.sql)[i] \notin Originals(tool.table_mapper) => TokenKept(i)
        /\ tool.table_mapper.mapping = <<>> => rw.replaced = rw.sql

(***************************************************************************)
(* C20 as the code has it: every token that is not a registered original    *)
(* name in any spelling of upper and lower case is in the output unchanged  *)
(* and at the same position; a token that differs from a registered name    *)
(* in case only is replaced like the name.  With an empty registry the      *)
(* output is the text.                                                      *)
(***************************************************************************)
C20_UnmappedUntouchedAnyCase ==
    rw.called =>
        /\ \A i \in 1..Len(Tokens(rw.sql)) :
              LowerName(Tokens(rw.sql)[i])
                  \notin {LowerName(o) : o \in Originals(tool.table_mapper)}
                => TokenKept(i)
        /\ Len(Tokens(rw.replaced)) = Len(Tokens(rw.sql))
        /\ tool.table_mapper.mapping = <<>> => rw.replaced = rw.sql

\* a text with a registered name and a longer word that begins with it: the
\* name was replaced, the word was not
C20_Witness ==
    /\ rw.called
    /\ ShortName \in Originals(tool.table_mapper)
    /\ rw.replaced # rw.sql
    /\ \E i, j \in 1..Len(Tokens(rw.sql)) :
          /\ Tokens(rw.sql)[i] = ShortName
          /\ Tokens(rw.replaced)[i] # ShortName
          /\ Len(Tokens(rw.sql)[j]) > 1
          /\ Tokens(rw.sql)[j][1] = "t"
          /\ Tokens(rw.sql)[j] \notin Originals(tool.table_mapper)
          /\ TokenKept(j)

(***************************************************************************)
(* C21.  For every registered pair (o, s) get_sandbox_name(o) = s and       *)
(* get_original_name(s) = o; a name no mapping has as its original comes    *)
(* back unchanged from get_sandbox_name, a name no mapping has as its       *)
(* sandbox name comes back unchanged from get_original_name.                *)
(***************************************************************************)
C21_Lookups ==
    LET m == tool.table_mapper
    IN /\ \A x \in Items(m.mapping) :
             /\ GetSandboxName(m, x[1]) = x[2]
             /\ GetOriginalName(m, x[2]) = x[1]
       /\ \A n \in RegOriginals \cup RegSandboxes :
             /\ (\A x \in Items(m.mapping) : x[1] # n) => GetSandboxName(m, n) = n
             /\ (\A x \in Items(m.mapping) : x[2] # n) => GetOriginalName(m, n) = n

(***************************************************************************)
(* C22.  After clear() both lookups give every name back unchanged,         *)
(* get_all_sandbox_tables is empty and replace_table_names returns every    *)
(* SQL text as it was, as a list of statements and character by character.  *)
(***************************************************************************)
C22_ClearDropsAll ==
    (reg.called /\ reg.op = "clear") =>
        LET m == tool.table_mapper
        IN /\ \A n \in RegOriginals \cup RegSandboxes :
                 GetSandboxName(m, n) = n /\ GetOriginalName(m, n) = n
           /\ GetAllSandboxTables(m) = <<>>
           /\ \A sql \in GatewaySqls : ReplaceTableNames(m, sql) = sql
           /\ \A text \in SeqsUpTo(Chars, MaxText) : ReplaceText(m, text) = text

\* clear() on a registry that held two mappings
C22_Witness ==
    /\ reg.called
    /\ reg.op = "clear"
    /\ Len(reg.before.mapping) = 2
    /\ Len(reg.before.reverse_mapping) = 2
    /\ tool.table_mapper = NewMapper

(***************************************************************************)
(* C23.  cleanup_sandbox on a sandbox database without tables and           *)
(* sequences, with no fault of the environment, returns normally and        *)
(* leaves the database and the session's foreign-key setting as they were.  *)
(***************************************************************************)
CleanupEnded ==
    /\ obs.cl_invoked
    /\ \/ cl.caller = "api" /\ pc \in {"done_cleanup_ok", "done_cleanup_raised"}
       \/ cl.caller = "setup" /\ pc = "done_setup_raised"

C23_DisposeIdempotent ==
    (/\ CleanupEnded /\ cl.caller = "api"
     /\ obs.pre.exists = {} /\ obs.pre.seqs = {}
     /\ ~obs.faulted)
        => (pc = "done_cleanup_ok" /\ sbx.db = obs.pre)

(***************************************************************************)
(* C24.  Whenever _cleanup_mysql_database has ended after issuing           *)
(* SET FOREIGN_KEY_CHECKS = 0, the last foreign-key statement it issued on  *)
(* the sandbox connection is SET FOREIGN_KEY_CHECKS = 1.                    *)
(***************************************************************************)
FkIssued == SelectSeq(obs.issued, LAMBDA x : x.s.k = "set_fk")

C24_FkChecksRestored ==
    (CleanupEnded /\ sbx.dialect = "mysql" /\ FkIssued # <<>>)
        => FkIssued[Len(FkIssued)].s = SetForeignKeyChecks(1)

(***************************************************************************)
(* C25.  When a DROP of the sweep failed, cleanup_sandbox still issued a    *)
(* DROP for every table and sequence its enumerations returned, and it      *)
(* raised only if a statement other than a DROP failed.                     *)
(***************************************************************************)
DropKinds == {"drop", "drop_seq"}

DropFailed == \E i \in 1..Len(obs.issued) : obs.issued[i].failed /\ obs.issued[i].s.k \in DropKinds

C25_SweepContinues ==
    (CleanupEnded /\ DropFailed) =>
        /\ \A j \in 1..Len(obs.listed) :
              \E i \in 1..Len(obs.issued) :
                  obs.issued[i].s.k \in DropKinds /\ obs.issued[i].s.t = obs.listed[j]
        /\ obs.cl_raised =>
              \E i \in 1..Len(obs.issued) :
                  obs.issued[i].failed /\ obs.issued[i].s.k \notin DropKinds

\* PostgreSQL: the first of two drops failed, the second was issued and
\* cleanup_sandbox returned
C25_Witness ==
    /\ CleanupEnded
    /\ sbx.dialect = "pg"
    /\ Len(obs.listed) = 2
    /\ Len(obs.issued) >= 3
    /\ obs.issued[2].s.k = "drop" /\ obs.issued[2].failed
    /\ obs.issued[3].s.k = "drop" /\ ~obs.issued[3].failed
    /\ ~obs.cl_raised

(***************************************************************************)
(* C26.  The source database is read-only: whatever get_diagnosis_config    *)
(* returned, no step of setup_sandbox or cleanup_sandbox changes the        *)
(* tables, rows or sequences of the database the target connection is       *)
(* connected to.                                                            *)
(***************************************************************************)
C26_SourceReadOnly ==
    /\ tgt.db.exists = SourceDb.exists
    /\ tgt.db.rows = SourceDb.rows
    /\ tgt.db.seqs = SourceDb.seqs

\* the same, for the configurations that name two databases
C26_SourceReadOnlyApart == ~SameDatabase => C26_SourceReadOnly

(***************************************************************************)
(* Results of one execute() call.                                          *)
(***************************************************************************)
\* the segments of an SQL text that do not strip to the empty string
RECURSIVE Statements(_)
Statements(sql) ==
    IF sql = <<>> THEN <<>>
    ELSE IF Head(sql) = Blank THEN Statements(Tail(sql))
         ELSE <<Head(sql)>> \o Statements(Tail(sql))

\* the segments of a script: statements with empty segments among them
ScriptSegments == {Blank, BadSql, CreateTable("orders"), SelectFrom("orders", "none", -1)}

\* executor.execute(TEST_SQL, fetch=True)
ExecuteScript == ExecuteOf(SeqsUpTo(ScriptSegments, MaxScript), {TRUE})

NextScript == ExecuteScript

SpecScript == InitExecutor /\ [][NextScript]_vars

\* execute(sql, fetch=True) returned a list
ReturnedList == last.called /\ last.fetch /\ ~last.raised /\ ~last.none

QuerySegments ==
    {CreateTable("orders"), InsertInto("orders", <<1>>), SelectFrom("orders", "none", -1),
     WithSelect("orders"), CommentedSelect("orders"), Describe("orders")}

\* executor.execute(sql, fetch) on texts of such statements
ExecuteQueries == ExecuteOf(SeqsUpTo(QuerySegments, MaxSegs), BOOLEAN)

NextQueries == ExecuteQueries

SpecQueries == InitExecutor /\ [][NextQueries]_vars

\* the statements the specified rule takes as reads: after the comments are
\* stripped, the first word is SELECT, SHOW, EXPLAIN, DESC, DESCRIBE or WITH
IsRead(s) ==
    KeywordAfterComments(s) \in {"SELECT", "SHOW", "EXPLAIN", "DESC", "DESCRIBE", "WITH"}

\* C28: in both dialects a statement yields a row-set result exactly when,
\* comments stripped, it starts with SELECT, SHOW, EXPLAIN, DESC/DESCRIBE or
\* WITH, and an affected-row-count result otherwise
C28_SameClassification ==
    ReturnedList =>
        \A i \in 1..Len(last.list) : last.list[i].isrows = IsRead(last.list[i].sql)

(***************************************************************************)
(* The life of one executor: constructed, connected, used, closed.         *)
(***************************************************************************)
InitLifecycle ==
    /\ ManagerUnused
    /\ GatewayUnused
    /\ tgt = Conn("mysql", EmptyDb)
    /\ \E d \in Dialects : sbx = NotConnected(d, EmptyDb)
    /\ last = NoCall

\* a call on the executor that is not an execute()
Lifecycle(op, r) ==
    /\ sbx' = r.conn
    /\ last' = [NoCall EXCEPT !.called = TRUE, !.pre = sbx.db, !.op = op, !.raised = r.raised,
                              !.err = r.err, !.was = sbx.session]
    /\ UNCHANGED <<tgt, tool, reg, rw, graph, out, managerVars>>

\* executor.connect()
ConnectCall ==
    /\ sbx.session = "none"
    /\ Lifecycle("connect", [conn |-> Connect(sbx), raised |-> FALSE, err |-> ""])

\* executor.close()
CloseCall == Lifecycle("close", Close(sbx))

\* executor.execute(sql, fetch=True) at any point of the executor's life
LifecycleExecute == ExecuteOf(SeqsUpTo(ScriptSegments, MaxSegs), {TRUE})

NextLifecycle == ConnectCall \/ LifecycleExecute \/ CloseCall

SpecLifecycle == InitLifecycle /\ [][NextLifecycle]_vars

\* C29: a close() on an executor that was closed before does not fail and
\* changes nothing, no close() leaves a live session behind, and an
\* execute() after close() is rejected as not connected, before anything is
\* sent to the closed session
C29_CloseEndsLifecycle ==
    /\ last.op = "close" /\ last.was = "closed" => ~last.raised
    /\ last.op = "close" => sbx.session # "open" /\ sbx.db = last.pre
    /\ last.op = "execute" /\ last.was = "closed" =>
           last.raised /\ last.err = "RuntimeError"

(***************************************************************************)
(* Introspection calls on an executor.                                     *)
(***************************************************************************)
\* an introspection call that named table t and ended as r
Introspected(op, t, r) ==
    /\ sbx' = r.conn
    /\ last' = [NoCall EXCEPT !.called = TRUE, !.pre = sbx.db, !.op = op, !.raised = r.raised,
                              !.err = r.err, !.was = sbx.session, !.t = t, !.val = r.val]
    /\ UNCHANGED <<tgt, tool, reg, rw, graph, out, managerVars>>

\* executor.table_exists(table_name)
TableExistsCall ==
    \E t \in TableNames, ext \in 0..1 :
        Introspected("table_exists", t, TableExists(sbx, t, [ext |-> ext, pick |-> <<>>]))

\* executor.get_table_count(table_name)
GetTableCountCall ==
    \E t \in TableNames, ext \in 0..1 :
        Introspected("get_table_count", t, GetTableCount(sbx, t, [ext |-> ext, pick |-> <<>>]))

NextIntrospect ==
    ConnectCall \/ LifecycleExecute \/ CloseCall \/ TableExistsCall \/ GetTableCountCall

SpecIntrospect == InitLifecycle /\ [][NextIntrospect]_vars

\* the call named a table the database did not hold
AbsentTable == last.t \notin last.pre.exists

RowsUpTo(n) == [i \in 1..n |-> i]
RowsDownFrom(n) == [i \in 1..n |-> n + 1 - i]

\* row counts around the number of rows displayed
RowCounts == {0, 1, MaxDisplayRows - 1, MaxDisplayRows, MaxDisplayRows + 1, MaxDisplayRows + 2}

\* results as the executors build them: a row set or an affected-row count
FormatInputs ==
    {[sql |-> SelectFrom("orders", "none", -1), isrows |-> TRUE, rows |-> RowsUpTo(n)] :
        n \in RowCounts}
    \cup {[sql |-> SelectFrom("orders", "time_desc", -1), isrows |-> TRUE,
           rows |-> RowsDownFrom(n)] : n \in RowCounts}
    \cup {[sql |-> InsertInto("orders", <<1>>), isrows |-> FALSE, rows |-> <<>>]}

MaxResults == 2     \* results in one list handed to _format_results

InitFormat ==
    /\ ManagerUnused
    /\ GatewayUnused
    /\ tgt = Conn("mysql", EmptyDb)
    /\ sbx = Conn("mysql", EmptyDb)
    /\ last = NoCall

\* self._format_results(results)
FormatResultsCall ==
    \E results \in SeqsUpTo(FormatInputs, MaxResults) :
        LET text == FormatResults(Returned(sbx, results))
        IN /\ last' = [NoCall EXCEPT !.called = TRUE, !.op = "format", !.list = results]
           /\ out' = [NoOut EXCEPT !.called = TRUE, !.kind = text.kind, !.parts = text.parts]
           /\ UNCHANGED <<tgt, sbx, tool, reg, rw, graph, managerVars>>

NextFormat == FormatResultsCall

SpecFormat == InitFormat /\ [][NextFormat]_vars

\* the first n elements of a sequence, n at most its length
RECURSIVE FirstRows(_, _)
FirstRows(rows, n) ==
    IF n = 0 \/ rows = <<>> THEN <<>> ELSE <<Head(rows)>> \o FirstRows(Tail(rows), n - 1)

\* C31: the formatted text has one block per result, in order and numbered
\* from 1; a row set of n rows lists its first min(n, 20) rows in result
\* order, followed by a suffix giving n - 20 exactly when n > 20
C31_PreviewCapped ==
    last.op = "format" /\ out.kind = "formatted" =>
        /\ Len(out.parts) = Len(last.list)
        /\ \A i \in 1..Len(out.parts) :
              LET part == out.parts[i]
                  rows == last.list[i].rows
              IN /\ part.number = i
                 /\ part.sql = last.list[i].sql
                 /\ part.isrows = last.list[i].isrows
                 /\ part.isrows =>
                       /\ part.row_count = Len(rows)
                       /\ part.shown = FirstRows(rows, 20)
                       /\ Len(rows) > 20 => part.hidden = Len(rows) - 20
                       /\ Len(rows) <= 20 => part.hidden = 0

\* a second block that lists 20 of 22 rows and a first one that is whole
C31_Witness ==
    /\ last.op = "format"
    /\ Len(out.parts) = 2
    /\ out.parts[1].row_count = 20 /\ out.parts[1].hidden = 0
    /\ out.parts[2].row_count = 22 /\ out.parts[2].hidden = 2
    /\ Len(out.parts[2].shown) = 20
    /\ out.parts[2].shown[1] = 22


(***************************************************************************)
(* The values of an INSERT batch.  A value is what the source driver       *)
(* returned for a column: k its Python type ("null": None), v its content  *)
(* (a number, a truth value or the characters of its text).                *)
(***************************************************************************)
Quote == "'"
Backslash == "\\"

Value(k, v) == [k |-> k, v |-> v]
Null == Value("null", 0)

\* str(val)
Str(val) ==
    CASE val.k = "int" -> <<IF val.v = 0 THEN "0" ELSE "7">>
      [] val.k = "bool" -> <<IF val.v THEN "True" ELSE "False">>
      [] OTHER -> val.v

\* text.replace(c, with)
RECURSIVE Replace(_, _, _)
Replace(text, c, with) ==
    IF text = <<>> THEN <<>>
    ELSE (IF Head(text) = c THEN with ELSE <<Head(text)>>) \o Replace(Tail(text), c, with)

\* the branch of "for col in columns" that turns val into SQL text; bool is a
\* subclass of int, so isinstance(val, (int, float)) holds for it
SqlLiteral(val) ==
    IF val.k = "null" THEN <<"NULL">>
    ELSE IF val.k \in {"int", "bool"} THEN Str(val)
    ELSE <<Quote>>
         \o Replace(Replace(Str(val), Backslash, <<Backslash, Backslash>>),
                    Quote, <<Backslash, Quote>>)
         \o <<Quote>>

\* what the engine reads from the characters after an opening quote: MySQL
\* takes a backslash as an escape character, PostgreSQL (standard conforming
\* strings) as a character; a doubled quote is a quote, a single one ends the
\* literal and has to be its last character
RECURSIVE ReadQuoted(_, _, _)
ReadQuoted(dialect, text, acc) ==
    IF text = <<>> THEN [ok |-> FALSE, v |-> acc]
    ELSE IF Head(text) = Backslash /\ dialect = "mysql"
         THEN IF Tail(text) = <<>> THEN [ok |-> FALSE, v |-> acc]
              ELSE ReadQuoted(dialect, Tail(Tail(text)), Append(acc, Head(Tail(text))))
    ELSE IF Head(text) = Quote
         THEN IF Tail(text) # <<>> /\ Head(Tail(text)) = Quote
              THEN ReadQuoted(dialect, Tail(Tail(text)), Append(acc, Quote))
              ELSE [ok |-> Tail(text) = <<>>, v |-> acc]
    ELSE ReadQuoted(dialect, Tail(text), Append(acc, Head(text)))

\* the value the engine stores for a literal in a column of the source
\* column's type (ok: the literal is one)
ReadLiteral(dialect, k, text) ==
    CASE text = <<"NULL">> -> [ok |-> TRUE, val |-> Null]
      [] text = <<"0">> -> [ok |-> TRUE, val |-> Value(k, 0)]
      [] text = <<"7">> -> [ok |-> TRUE, val |-> Value(k, 7)]
      [] text = <<"True">> -> [ok |-> TRUE, val |-> Value(k, TRUE)]
      [] text = <<"False">> -> [ok |-> TRUE, val |-> Value(k, FALSE)]
      [] OTHER ->
            IF text # <<>> /\ Head(text) = Quote
            THEN LET r == ReadQuoted(dialect, Tail(text), <<>>)
                 IN [ok |-> r.ok, val |-> Value(k, r.v)]
            ELSE [ok |-> FALSE, val |-> Null]

MaxChars == 2       \* characters of a copied text
MaxCopied == 2      \* values copied into the sandbox table

TextChars == {"a", Backslash, Quote}

\* the values a source row may hold; only PostgreSQL sessions return bool
CopiedValues(dialect) ==
    {Null, Value("int", 0), Value("int", 7), Value("decimal", <<"7", ".", "0">>),
     Value("date", <<"d">>)}
    \cup {Value("str", s) : s \in SeqsUpTo(TextChars, MaxChars)}
    \cup (IF dialect = "pg" THEN {Value("bool", TRUE), Value("bool", FALSE)} ELSE {})

InitValues ==
    /\ ManagerUnused
    /\ GatewayUnused
    /\ tgt = Conn("mysql", EmptyDb)
    /\ \E d \in Dialects : sbx = Conn(d, [EmptyDb EXCEPT !.exists = {"orders"}])
    /\ last = NoCall

\* one round of the batch loop for a batch of one row with one column: the
\* INSERT the manager builds for val and what the sandbox makes of it
CopyValue ==
    /\ Len(sbx.db.rows["orders"]) < MaxCopied
    /\ \E val \in CopiedValues(sbx.dialect) :
          LET text == SqlLiteral(val)
              read == ReadLiteral(sbx.dialect, val.k, text)
              sql == IF read.ok THEN <<InsertInto("orders", <<read.val>>)>> ELSE <<BadSql>>
              r == Execute(sbx, sql, FALSE, [ext |-> 0, pick |-> <<>>])
          IN /\ sbx' = r.conn
             /\ last' = [NoCall EXCEPT !.called = TRUE, !.op = "copy_value", !.pre = sbx.db,
                                       !.val = val, !.sql = text,
                                       !.failedAt = IF read.ok THEN 0 ELSE 1,
                                       !.raised = r.raised, !.none = r.none, !.err = r.err]
             /\ UNCHANGED <<tgt, tool, reg, rw, graph, out, managerVars>>

NextValues == CopyValue

SpecValues == InitValues /\ [][NextValues]_vars

\* the text is a quoted literal in which every backslash and every quote of
\* the value follows a backslash
RECURSIVE Escaped(_)
Escaped(text) ==
    IF text = <<>> THEN TRUE
    ELSE IF Head(text) = Backslash
         THEN Tail(text) # <<>> /\ Head(Tail(text)) \in {Backslash, Quote}
              /\ Escaped(Tail(Tail(text)))
    ELSE Head(text) # Quote /\ Escaped(Tail(text))

QuotedLiteral(text) ==
    /\ Len(text) >= 2
    /\ Head(text) = Quote
    /\ text[Len(text)] = Quote
    /\ Escaped(SubSeq(text, 2, Len(text) - 1))

\* the last row of the sandbox table
Stored == sbx.db.rows["orders"][Len(sbx.db.rows["orders"])]

\* C32: a copied value is written as NULL when it is null, unquoted when it
\* is a number, and as a quoted literal with every backslash and quote
\* escaped otherwise (booleans included); the sandbox then holds a value equal
\* to the source value
C32_ValueRoundTrip ==
    last.op = "copy_value" =>
        /\ last.val.k = "null" => last.sql = <<"NULL">>
        /\ last.val.k = "int" => last.sql = Str(last.val)
        /\ last.val.k \notin {"null", "int"} => QuotedLiteral(last.sql)
        /\ last.failedAt = 0
        /\ Len(sbx.db.rows["orders"]) = Len(last.pre.rows["orders"]) + 1
        /\ Stored = last.val

\* the three rules, for every value that is not a boolean
C32_SerializationRule ==
    last.op = "copy_value" /\ last.val.k # "bool" =>
        /\ last.val.k = "null" => last.sql = <<"NULL">>
        /\ last.val.k = "int" => last.sql = Str(last.val)
        /\ last.val.k \notin {"null", "int"} => QuotedLiteral(last.sql)

\* the value read back equals the source value on MySQL
C32_RoundTripMySQL ==
    last.op = "copy_value" /\ sbx.dialect = "mysql" =>
        last.failedAt = 0 /\ Stored = last.val


(***************************************************************************)
(* Occurrences of registered names in a rewritten text.                    *)
(***************************************************************************)
\* the sandbox name registered for an original name
SandboxName(m, original) == m.mapping[SandboxOf(m, original)][2]

\* the text with the occurrence of name at i replaced by its sandbox name
\* and the text on either side rewritten by itself
OccurrenceReplaced(m, text, i, name) ==
    ReplaceText(m, SubSeq(text, 1, i - 1))
    \o SandboxName(m, name)
    \o ReplaceText(m, SubSeq(text, i + Len(name), Len(text)))

\* the sandbox names of a registry
Sandboxes(m) == {m.mapping[i][2] : i \in 1..Len(m.mapping)}

\* C33: every occurrence of a registered original name, between identifier
\* quotes or bare between word boundaries, in any letter case, comes out as
\* the sandbox name of that name with the characters around it kept (the
\* quotes among them), and a word that only contains a registered name comes
\* out unchanged
C33_EveryOccurrenceReplaced ==
    rw.called =>
        /\ \A name \in Originals(tool.table_mapper) :
              \A i \in 1..Len(rw.sql) :
                  IsOccurrence(rw.sql, i, name) =>
                      rw.replaced = OccurrenceReplaced(tool.table_mapper, rw.sql, i, name)
        /\ \A j \in 1..Len(Tokens(rw.sql)) :
              LowerName(Tokens(rw.sql)[j])
                  \notin {LowerName(o) : o \in Originals(tool.table_mapper)}
                => TokenKept(j)

\* the same, for registries in which no sandbox name is an original name
C33_EveryOccurrenceReplacedApart ==
    Originals(tool.table_mapper) \cap Sandboxes(tool.table_mapper) = {}
        => C33_EveryOccurrenceReplaced


(***************************************************************************)
(* SpecChain: registries in which the sandbox name of one mapping is the   *)
(* original name of another of the same length, and texts of such names.   *)
(***************************************************************************)
ChainOriginals == {<<"t">>, <<"s">>}
ChainSandboxes == {<<"s">>, <<"x">>}
ChainChars == {"t", "s", " "}

\* the caller registers each original once
ChainAdd ==
    /\ ~rw.called
    /\ AddMappingOf(ChainOriginals \ Originals(tool.table_mapper), ChainSandboxes)

ChainReplace == ReplaceTableNamesOf(SeqsUpTo(ChainChars, MaxText))

NextChain == ChainAdd \/ ChainReplace

SpecChain == InitRewrite /\ [][NextChain]_vars

\* the registry with the same mappings registered in the opposite order
RegisteredInReverse(m) ==
    [mapping |-> Reverse(m.mapping), reverse_mapping |-> Reverse(m.reverse_mapping)]

\* C35: each occurrence of a registered name comes out as the sandbox name
\* of that name, whatever other mappings exist (with t -> s and s -> x an
\* occurrence of t becomes s), and the result is the same when the mappings
\* were registered in the opposite order.  Every name of SpecChain has one
\* character, so an occurrence keeps its position in the output.
C35_OneMappingPerReference ==
    rw.called =>
        /\ \A i \in 1..Len(rw.sql) :
              \A name \in Originals(tool.table_mapper) :
                  IsOccurrence(rw.sql, i, name) =>
                      SubSeq(rw.replaced, i, i + Len(SandboxName(tool.table_mapper, name)) - 1)
                          = SandboxName(tool.table_mapper, name)
        /\ rw.replaced = ReplaceText(RegisteredInReverse(tool.table_mapper), rw.sql)

\* the result does not depend on the order of registration when no sandbox
\* name is an original name
C35_OrderFreeApart ==
    rw.called /\ Originals(tool.table_mapper) \cap Sandboxes(tool.table_mapper) = {} =>
        rw.replaced = ReplaceText(RegisteredInReverse(tool.table_mapper), rw.sql)


(***************************************************************************)
(* C34.  With both fixtures in force, an execute_sql call that issued the  *)
(* preprocess fixture also issues the clean-up fixture, as its last call,  *)
(* whether or not the preprocess fixture or the caller's SQL failed.       *)
(***************************************************************************)
C34_CleanUpAfterFailure ==
    (BothFixtures /\ out.calls # <<>> /\ out.calls[1].what = "preprocess_sql") =>
        out.calls[Len(out.calls)].what = "clean_up_sql"

\* the same, for the calls whose try block raised nothing
C34_CleanUpAfterSuccess ==
    out.exc = "" => C34_CleanUpAfterFailure


(***************************************************************************)
(* The summary setup_sandbox returns.                                      *)
(***************************************************************************)
\* the names of the descriptors that say "sampled", in the summary's order
RECURSIVE SampledNames(_)
SampledNames(descriptors) ==
    IF descriptors = <<>> THEN <<>>
    ELSE (IF Head(descriptors).is_sampled THEN <<Head(descriptors).original>> ELSE <<>>)
         \o SampledNames(Tail(descriptors))

\* the tables whose CREATE was issued, in order
CreatedNames == [i \in 1..Len(obs.created) |-> obs.created[i].t]

\* when setup_sandbox returned, its summary has one descriptor per entry of
\* the table list, in the list's order, each with the row count of the
\* source table, and sampled_tables names the descriptors marked sampled, in
\* order; the CREATE of every table was issued, once per entry and in order,
\* and INSERT batches are issued only for a table whose CREATE was issued
\* before
C36_SummaryMatchesInput ==
    /\ pc = "done_setup_ok" =>
          /\ Len(sm.info.tables) = Len(sm.tables)
          /\ \A i \in 1..Len(sm.tables) :
                /\ sm.info.tables[i].original = sm.tables[i]
                /\ sm.info.tables[i].original_rows = Len(tgt.db.rows[sm.tables[i]])
          /\ sm.info.sampled_tables = SampledNames(sm.info.tables)
          /\ CreatedNames = sm.tables
    /\ obs.batches # <<>> =>
          /\ pc \in {"sm_insert", "sm_append", "sm_except"}
          /\ obs.created # <<>>
          /\ obs.created[Len(obs.created)].t = sm.tables[sm.idx]
          /\ Len(obs.created) = sm.idx

\* C36: the summary setup_sandbox returns matches its input as above, and
\* every table of the list was created in the sandbox before any of its rows
\* was inserted: its CREATE succeeded, and no INSERT batch is issued for a
\* table whose CREATE failed
C36_SummaryAndCreation ==
    /\ C36_SummaryMatchesInput
    /\ pc = "done_setup_ok" => \A i \in 1..Len(obs.created) : ~obs.created[i].failed
    /\ obs.batches # <<>> => ~obs.created[Len(obs.created)].failed



(***************************************************************************)
(* C37.  Between two executor operations neither connection has an open    *)
(* or an aborted transaction: every operation (execute, table_exists,      *)
(* get_table_count, get_create_table_ddl) committed or rolled back what it *)
(* started before it returned or raised.                                   *)
(***************************************************************************)
C37_NoTransactionLeft == tgt.tx = "idle" /\ sbx.tx = "idle"

\* the same, for MySQL sessions
C37_NoTransactionLeftMySQL == tgt.dialect = "mysql" => C37_NoTransactionLeft

\* the same, for the connection get_create_table_ddl is not called on
C37_NoTransactionLeftSandbox == sbx.tx = "idle"


(***************************************************************************)
(* The diagnosis graph: reasoning, then should_continue, which ends, runs  *)
(* the tools and comes back, forces a conclusion or raises.                *)
(***************************************************************************)
MaxIter == 8        \* largest max_iter a configuration gives

\* initial_state of diagnose_stream; max_iter is config.get("max_iter", 10)
InitialState(kind, max_iter) ==
    [NoGraph EXCEPT !.kind = kind, !.node = "reasoning", !.max_iter = max_iter]

\* everything but the graph is as constructed
GraphOnly ==
    /\ ManagerUnused
    /\ tool = NewTool
    /\ reg = NoReg
    /\ rw = NoText
    /\ out = NoOut
    /\ main = NewMain(<<>>)
    /\ tgt = Conn("mysql", EmptyDb)
    /\ sbx = Conn("mysql", EmptyDb)
    /\ last = NoCall

GraphStep == UNCHANGED <<tgt, sbx, last, tool, reg, rw, out, managerVars>>

InitDiagnosis ==
    /\ GraphOnly
    /\ \E m \in 0..MaxIter : graph = InitialState("diagnosis", m)

\* a reasoning node that returns the iteration it was given
ReasoningNodeNoCount ==
    /\ graph.kind = "diagnosis" /\ graph.node = "reasoning"
    /\ \E conclusion \in BOOLEAN, tool_calls \in BOOLEAN :
          graph' = [graph EXCEPT !.node = "should_continue",
                                 !.conclusion = conclusion, !.tool_calls = tool_calls,
                                 !.runs = @ + 1, !.invocations = @ + 1]
    /\ GraphStep

\* reasoning_node: the model answers with or without the conclusion marker,
\* with or without tool calls
ReasoningNode ==
    /\ graph.kind = "diagnosis" /\ graph.node = "reasoning"
    /\ \E conclusion \in BOOLEAN, tool_calls \in BOOLEAN :
          graph' = [graph EXCEPT !.node = "should_continue", !.iteration = @ + 1,
                                 !.conclusion = conclusion, !.tool_calls = tool_calls,
                                 !.runs = @ + 1, !.invocations = @ + 1]
    /\ GraphStep

\* should_continue and the conditional edges of the reasoning node
ShouldContinue ==
    /\ graph.kind = "diagnosis" /\ graph.node = "should_continue"
    /\ graph' = [graph EXCEPT
                   !.node = IF graph.conclusion THEN "end"
                            ELSE IF graph.iteration >= graph.max_iter THEN "force_conclusion"
                            ELSE IF graph.tool_calls THEN "tools"
                            ELSE "error",
                   !.err = IF ~graph.conclusion /\ graph.iteration < graph.max_iter
                              /\ ~graph.tool_calls
                           THEN "RuntimeError" ELSE @]
    /\ GraphStep

\* the tool node and its edge back to the reasoning node
ToolsNode ==
    /\ graph.kind = "diagnosis" /\ graph.node = "tools"
    /\ graph' = [graph EXCEPT !.node = "reasoning", !.tool_calls = FALSE]
    /\ GraphStep

\* force_conclusion_node and its edge to END; the conclusion is the content
\* of the response, which may be empty
ForceConclusionNode ==
    /\ graph.kind = "diagnosis" /\ graph.node = "force_conclusion"
    /\ \E conclusion \in BOOLEAN :
          graph' = [graph EXCEPT !.node = "end", !.conclusion = conclusion,
                                 !.tool_calls = FALSE,
                                 !.forced = @ + 1, !.invocations = @ + 1]
    /\ GraphStep

NextDiagnosis == ReasoningNode \/ ShouldContinue \/ ToolsNode \/ ForceConclusionNode

\* the graph runtime runs the next node as long as there is one
SpecDiagnosis == InitDiagnosis /\ [][NextDiagnosis]_vars /\ WF_vars(NextDiagnosis)

GraphEnded == graph.node \in {"end", "error"}

\* where the graph is after a run of the reasoning node, by the last response
Routed ==
    /\ graph.node = "tools" =>
          ~graph.conclusion /\ graph.iteration < graph.max_iter /\ graph.tool_calls
    /\ graph.node = "force_conclusion" =>
          ~graph.conclusion /\ graph.iteration >= graph.max_iter /\ graph.forced = 0
    /\ graph.node = "error" =>
          /\ ~graph.conclusion /\ graph.iteration < graph.max_iter /\ ~graph.tool_calls
          /\ graph.err = "RuntimeError"
    /\ graph.node = "end" => graph.forced = 1 \/ (graph.conclusion /\ graph.forced = 0)
    /\ graph.forced <= 1
    /\ graph.iteration = graph.runs

\* C38 as stated: the graph ends for every sequence of responses, the
\* reasoning node runs at most max_iter times, each run adds 1 to iteration
\* and is followed by END (conclusion), the forced conclusion (iteration >=
\* max_iter; at most once, then END), the tools and the reasoning node again
\* (tool calls) or a RuntimeError (neither)
C38_AtMostMaxIterRuns ==
    /\ [](Routed /\ graph.runs <= graph.max_iter)
    /\ <>GraphEnded

\* C38 as the code has it: the same, with the reasoning node running once
\* when max_iter is 0 or less, that is at most max(max_iter, 1) times
C38_GraphTerminates ==
    /\ [](Routed /\ graph.runs <= (IF graph.max_iter >= 1 THEN graph.max_iter ELSE 1))
    /\ <>GraphEnded

\* a graph that ran the reasoning node max_iter = 3 times, the tools in
\* between, and ended through the forced conclusion
C38_Witness ==
    /\ graph.kind = "diagnosis"
    /\ graph.node = "end"
    /\ graph.max_iter = 3
    /\ graph.runs = 3
    /\ graph.forced = 1
    /\ graph.invocations = 4


(***************************************************************************)
(* The reflection graph: reasoning, then check_response, which ends or     *)
(* sends the response to fix_json and is asked again behind it.            *)
(***************************************************************************)
\* initial_state of reflect_from_solution_stream
InitReflection ==
    /\ GraphOnly
    /\ \E m \in 0..MaxIter : graph = InitialState("reflection", m)

\* reasoning_node of the reflection graph: the response parses as JSON or
\* does not
ReflectionReasoningNode ==
    /\ graph.kind = "reflection" /\ graph.node = "reasoning"
    /\ \E parsed \in BOOLEAN :
          graph' = [graph EXCEPT !.node = "check_response", !.iteration = @ + 1,
                                 !.parsed = parsed,
                                 !.runs = @ + 1, !.invocations = @ + 1]
    /\ GraphStep

\* what fix_json_node may find under error_message: check_response assigns
\* the key in the state it was handed, as an edge function, and AgentState
\* declares no such key; the node gets the parse error when the runtime hands
\* it that same state, the None of the initial state when the runtime keeps
\* the keys the caller gave, and no key otherwise
ErrorMessages == {"parse error", "None", "unset"}

\* check_response, the edge function behind reasoning and behind fix_json
CheckResponse ==
    /\ graph.kind = "reflection" /\ graph.node = "check_response"
    /\ IF graph.iteration >= graph.max_iter \/ graph.parsed
       THEN graph' = [graph EXCEPT !.node = "end"]
       ELSE \E seen \in ErrorMessages :
               graph' = [graph EXCEPT !.node = "fix_json", !.error_message = seen]
    /\ GraphStep

\* fix_json_node: reads state["error_message"], then asks the model again
FixJsonNode ==
    /\ graph.kind = "reflection" /\ graph.node = "fix_json"
    /\ IF graph.error_message = "unset"
       THEN graph' = [graph EXCEPT !.node = "error", !.err = "KeyError"]
       ELSE \E parsed \in BOOLEAN :
               graph' = [graph EXCEPT !.node = "check_response", !.iteration = @ + 1,
                                      !.parsed = parsed, !.invocations = @ + 1]
    /\ GraphStep

NextReflection == ReflectionReasoningNode \/ CheckResponse \/ FixJsonNode

SpecReflection == InitReflection /\ [][NextReflection]_vars /\ WF_vars(NextReflection)

\* every call of the model adds 1 to iteration, the graph ends when
\* iteration >= max_iter or the response parses and goes to fix_json otherwise
Counted ==
    /\ graph.iteration = graph.invocations
    /\ graph.node = "end" => graph.iteration >= graph.max_iter \/ graph.parsed
    /\ graph.node = "fix_json" => graph.iteration < graph.max_iter /\ ~graph.parsed

\* C39: the reflection graph ends after at most max_iter calls of the model,
\* each run of reasoning or fix_json adds 1 to iteration, the graph ends as
\* soon as iteration >= max_iter or the response parses, and fix_json finds
\* the parse error it reports
C39_ReflectionTerminates ==
    /\ [](/\ Counted
          /\ graph.invocations <= graph.max_iter
          /\ graph.node = "fix_json" => graph.error_message = "parse error"
          /\ graph.err = "")
    /\ <>(graph.node = "end")

\* C39, what fix_json finds: the parse error
C39_FixJsonHasError ==
    graph.node = "fix_json" => graph.error_message = "parse error"

\* C39, the count alone: at most max_iter calls of the model
C39_AtMostMaxIterInvocations == graph.invocations <= graph.max_iter

\* C39 without the message and for max_iter >= 1: the counting and the
\* routing are as stated, there are at most max_iter calls of the model, and
\* the graph ends or fix_json raises
C39_CountedAndEnds ==
    /\ [](Counted /\ (graph.max_iter >= 1 => graph.invocations <= graph.max_iter))
    /\ <>GraphEnded


(***************************************************************************)
(* C40.  In the main program every connection that was opened is closed    *)
(* before the process exits, on every exit path behind the two connect     *)
(* calls: main never exits with the two connections not closed.            *)
(***************************************************************************)
C40_MainCloses == main.pc = "exited" => main.closed

\* C40 on the exit path of a provisioning failure: setup_sandbox raised and
\* main exits with status 1, both connections closed
C40_ClosedAfterSetupRaised ==
    (main.pc = "exited" /\ pc = "done_setup_raised") => (main.closed /\ main.code = 1)

====
